---------------------------- MODULE Spec2Model ----------------------------
(***************************************************************************)
(* Model of the clinic scheduler core (src/scheduler, src/data/models.py). *)
(*                                                                         *)
(* A date is a day number; day 0 is a Monday.  The three shift labels      *)
(* "Morning", "Midday", "Evening" stand for the source strings 早, 中, 晚. *)
(* The CP-SAT solver is modelled by what it guarantees: a solve returns    *)
(* some assignment that satisfies every constraint posted into the model   *)
(* (status FEASIBLE), one that also maximises the objective (OPTIMAL), or  *)
(* nothing (INFEASIBLE when no assignment exists, UNKNOWN on timeout).     *)
(***************************************************************************)
EXTENDS Integers, Sequences, FiniteSets, TLC

(***************************************************************************)
(* Bounds of the model.                                                    *)
(***************************************************************************)
MaxEmployees == 2
MaxPeople == 2
MaxMinimum == 2
MaxStartDate == 1
MaxWeeks == 3
MaxNobodyWeeks == 2
MaxDayLimit == 4
MaxListed == 3
MaxSaved == 2
MaxDistinctLists == 2
MaxThreeShiftDays == 7
MaxScored == 3
MaxTwoShiftDays == 5
MaxOneShiftDays == 6

(***************************************************************************)
(* Program constants.                                                      *)
(***************************************************************************)
DaysPerWeek == 7
DailyShiftLimit == 3
StrictWeeklyShifts == 10
RelaxedMinWeeklyShifts == 8
RelaxedMaxWeeklyShifts == 10
StrictMaxWorkDays == 5
RelaxedMaxWorkDays == 6
BonusPoints == 10
UiNumWeeks == 1

shift_times == <<"Morning", "Midday", "Evening">>

ShiftTimeSet == {shift_times[i] : i \in 1..Len(shift_times)}

(***************************************************************************)
(* datetime.date helpers.                                                  *)
(***************************************************************************)
weekday(d) == d % 7

isocalendar(d) == d \div 7

SetMax(S) == CHOOSE m \in S : \A n \in S : n <= m

SetMin(S) == CHOOSE m \in S : \A n \in S : m <= n

(***************************************************************************)
(* data/models.py                                                          *)
(***************************************************************************)
can_work_on(employee, day_of_week, shift_time) ==
    IF day_of_week \notin DOMAIN employee.available_shifts
    THEN FALSE
    ELSE shift_time \in employee.available_shifts[day_of_week]

has_employee(shift, employee_name) ==
    \E i \in 1..Len(shift.assigned_employees) :
        shift.assigned_employees[i].name = employee_name

count_leaders(shift) ==
    Cardinality({i \in 1..Len(shift.assigned_employees) :
                    shift.assigned_employees[i].is_leader})

count_injectors(shift) ==
    Cardinality({i \in 1..Len(shift.assigned_employees) :
                    shift.assigned_employees[i].can_inject})

count_leader_or_injector(shift) ==
    Cardinality({i \in 1..Len(shift.assigned_employees) :
                    shift.assigned_employees[i].is_leader
                    \/ shift.assigned_employees[i].can_inject})

get_employee_shifts(schedule, employee_name) ==
    {i \in 1..Len(schedule.shifts) : has_employee(schedule.shifts[i], employee_name)}

(***************************************************************************)
(* scheduler/constraints.py                                                *)
(***************************************************************************)
\* The availability check without its time-off loop.
validate_availability_without_time_off(shift, employee, requests) ==
    can_work_on(employee, weekday(shift.date) + 1, shift.shift_time)

validate_availability(shift, employee, requests) ==
    IF ~can_work_on(employee, weekday(shift.date) + 1, shift.shift_time)
    THEN FALSE
    ELSE ~\E request \in requests :
            /\ request.employee_name = employee.name
            /\ request.date = shift.date
            /\ request.shift_time = shift.shift_time

\* The relaxed minima rounded up instead of down.
validate_shift_requirements_rounding_up(shift, requirement, relaxed) ==
    IF Len(shift.assigned_employees) # requirement.num_people
    THEN FALSE
    ELSE IF relaxed
    THEN /\ ~(count_leaders(shift) < (requirement.num_leaders + 1) \div 2)
         /\ ~(count_injectors(shift) < (requirement.num_injectors + 1) \div 2)
         /\ ~(count_leader_or_injector(shift)
                < (requirement.num_leader_or_injector + 1) \div 2)
    ELSE /\ ~(count_leaders(shift) < requirement.num_leaders)
         /\ ~(count_injectors(shift) < requirement.num_injectors)
         /\ ~(count_leader_or_injector(shift)
                < requirement.num_leader_or_injector)

validate_shift_requirements(shift, requirement, relaxed) ==
    IF Len(shift.assigned_employees) # requirement.num_people
    THEN FALSE
    ELSE IF relaxed
    THEN /\ ~(count_leaders(shift) < requirement.num_leaders \div 2)
         /\ ~(count_injectors(shift) < requirement.num_injectors \div 2)
         /\ ~(count_leader_or_injector(shift)
                < requirement.num_leader_or_injector \div 2)
    ELSE /\ ~(count_leaders(shift) < requirement.num_leaders)
         /\ ~(count_injectors(shift) < requirement.num_injectors)
         /\ ~(count_leader_or_injector(shift)
                < requirement.num_leader_or_injector)

\* validate_fulltime_constraints: the employee's shifts are grouped by the
\* Monday of their week; only weeks with a shift are looked at.
validate_fulltime_constraints(schedule, employee, relaxed_shifts, relaxed_days_off) ==
    IF ~employee.is_fulltime
    THEN TRUE
    ELSE LET employee_shifts == get_employee_shifts(schedule, employee.name)
             week_starts == {schedule.shifts[s].date
                                - weekday(schedule.shifts[s].date) :
                             s \in employee_shifts}
         IN  \A week_start \in week_starts :
                LET week_shifts ==
                        {s \in employee_shifts :
                            schedule.shifts[s].date
                              - weekday(schedule.shifts[s].date) = week_start}
                    work_days == {schedule.shifts[s].date : s \in week_shifts}
                    week_dates == {week_start + i : i \in 0..6}
                    days_off == Cardinality(week_dates \ work_days)
                IN  /\ IF relaxed_shifts
                       THEN ~(Cardinality(week_shifts) < 8
                              \/ Cardinality(week_shifts) > 10)
                       ELSE ~(Cardinality(week_shifts) # 10)
                    /\ IF relaxed_days_off
                       THEN ~(days_off < 1)
                       ELSE ~(days_off # 2)

\* max_shifts_per_day: int = 3
DefaultMaxShiftsPerDay == 3

\* The limit taken as the largest count allowed.
check_employee_day_limit_inclusive(schedule, employee_name, target_date, max_shifts_per_day) ==
    Cardinality({s \in 1..Len(schedule.shifts) :
        /\ schedule.shifts[s].date = target_date
        /\ has_employee(schedule.shifts[s], employee_name)})
            <= max_shifts_per_day

check_employee_day_limit(schedule, employee_name, target_date, max_shifts_per_day) ==
    Cardinality({s \in 1..Len(schedule.shifts) :
        /\ schedule.shifts[s].date = target_date
        /\ has_employee(schedule.shifts[s], employee_name)})
            < max_shifts_per_day

\* daily_shifts[employee_name][shift_date]: one for every entry of that name
\* in assigned_employees of a shift of that date.
daily_shifts(schedule, employee_name, shift_date) ==
    Cardinality({si \in UNION {{<<s, i>> :
                        i \in 1..Len(schedule.shifts[s].assigned_employees)} :
                     s \in 1..Len(schedule.shifts)} :
        /\ schedule.shifts[si[1]].date = shift_date
        /\ schedule.shifts[si[1]].assigned_employees[si[2]].name
                = employee_name})

\* The (employee_name, shift_date) keys daily_shifts holds.
DailyShiftsKeys(schedule) ==
    UNION {{<<schedule.shifts[s].assigned_employees[i].name,
              schedule.shifts[s].date>> :
                i \in 1..Len(schedule.shifts[s].assigned_employees)} :
           s \in 1..Len(schedule.shifts)}

\* The score as the solver's objective counts it: no penalty.
calculate_schedule_score_without_penalty(schedule) ==
    10 * Cardinality({k \in DailyShiftsKeys(schedule) :
                        daily_shifts(schedule, k[1], k[2]) = 2})

\* +10 for a count of 2, +0 for a count of 1, -5 for any other count.
calculate_schedule_score(schedule) ==
    10 * Cardinality({k \in DailyShiftsKeys(schedule) :
                        daily_shifts(schedule, k[1], k[2]) = 2})
    - 5 * Cardinality({k \in DailyShiftsKeys(schedule) :
                        /\ daily_shifts(schedule, k[1], k[2]) # 2
                        /\ daily_shifts(schedule, k[1], k[2]) # 1})

(***************************************************************************)
(* ORToolsScheduler.generate_month_template, in closed form: the shift at  *)
(* position i of the list the three nested loops build.                    *)
(***************************************************************************)
TemplateShift(sd, i) ==
    LET week == (i - 1) \div (DaysPerWeek * Len(shift_times))
        day  == ((i - 1) % (DaysPerWeek * Len(shift_times))) \div Len(shift_times)
        k    == ((i - 1) % Len(shift_times)) + 1
    IN  [date |-> sd + 7 * week + day,
         shift_time |-> shift_times[k],
         assigned_employees |-> <<>>]

RECURSIVE TemplatePrefix(_, _)
TemplatePrefix(sd, n) ==
    IF n = 0
    THEN <<>>
    ELSE Append(TemplatePrefix(sd, n - 1), TemplateShift(sd, n))

generate_month_template(sd, nw) ==
    TemplatePrefix(sd, nw * DaysPerWeek * Len(shift_times))

(***************************************************************************)
(* ORToolsScheduler.  `self` is the record of the object's attributes.  An *)
(* assignment x is the matrix shift_vars as the solver values it: x[e] is  *)
(* the set of shift indices s with shift_vars[e][s] = 1.                   *)
(***************************************************************************)
NoRequirement == [day_of_week |-> 0, shift_time |-> "None", num_people |-> 0,
                  num_leaders |-> 0, num_injectors |-> 0,
                  num_leader_or_injector |-> 0]

\* self.requirement_map.get((day_of_week, shift_time)): a later row of the
\* list overwrites an earlier one with the same key.
requirement_map(self, day_of_week, shift_time) ==
    LET hits == {i \in 1..Len(self.requirements) :
                    /\ self.requirements[i].day_of_week = day_of_week
                    /\ self.requirements[i].shift_time = shift_time}
    IN  IF hits = {} THEN NoRequirement ELSE self.requirements[SetMax(hits)]

DatesOf(shifts) == {shifts[s].date : s \in 1..Len(shifts)}

ShiftsOnDate(shifts, date_val) ==
    {s \in 1..Len(shifts) : shifts[s].date = date_val}

\* sum(shift_vars[e][s] for s in shift_indices of date_val), for a row
DailySum(shifts, row, date_val) ==
    Cardinality({s \in row : shifts[s].date = date_val})

\* _add_availability_constraints: shift_vars[e][s] == 0 wherever
\* validate_availability is false; the remaining variables are free.
FreeShifts(self, shifts, emp_idx) ==
    {s \in 1..Len(shifts) :
        validate_availability(shifts[s], self.employees[emp_idx],
                              self.time_off_requests)}

\* _add_pre_assignment_constraints: the first shift matching the record and
\* the first employee of that name; a record matching no shift or no
\* employee posts nothing.
PreAssignmentPins(self, shifts, emp_idx) ==
    {s \in 1..Len(shifts) :
        \E pre \in self.pre_assigned_shifts :
            LET hits == {t \in 1..Len(shifts) :
                            /\ shifts[t].date = pre.date
                            /\ shifts[t].shift_time = pre.shift_time}
                named == {i \in 1..Len(self.employees) :
                            self.employees[i].name = pre.employee_name}
            IN  /\ hits # {}
                /\ named # {}
                /\ s = SetMin(hits)
                /\ emp_idx = SetMin(named)}

\* A pre-assignment pinned only when the employee is free for the shift.
add_pre_assignment_constraints_when_free(self, shifts, emp_idx, row) ==
    (PreAssignmentPins(self, shifts, emp_idx)
        \cap FreeShifts(self, shifts, emp_idx)) \subseteq row

\* The pre-assignment records posted as nothing.
add_pre_assignment_constraints_dropped(self, shifts, emp_idx, row) == TRUE

add_pre_assignment_constraints(self, shifts, emp_idx, row) ==
    PreAssignmentPins(self, shifts, emp_idx) \subseteq row

\* The right-hand side of a capability constraint.
CapabilityMinimum(relaxed, minimum) ==
    IF relaxed THEN minimum \div 2 ELSE minimum

\* if pool: self.model.Add(sum(pool vars) >= minimum)
CapabilityConstraint(pool, assigned, minimum) ==
    pool # {} => Cardinality(assigned \cap pool) >= minimum

\* A headcount posted as a minimum instead of an equality.
HeadcountAtLeast(assigned, num_people) ==
    Cardinality(assigned) >= num_people

\* self.model.Add(sum(total_assigned) == requirement.num_people)
HeadcountConstraint(assigned, num_people) ==
    Cardinality(assigned) = num_people

AssignedTo(x, s) == {e \in 1..Len(x) : s \in x[e]}

\* _add_shift_requirement_constraints, for one shift with a requirement
ShiftRequirementConstraints(self, requirement, assigned) ==
    LET leader_indices == {i \in 1..Len(self.employees) :
                              self.employees[i].is_leader}
        injector_indices == {i \in 1..Len(self.employees) :
                                self.employees[i].can_inject}
        leader_or_injector_indices ==
            {i \in 1..Len(self.employees) :
                self.employees[i].is_leader \/ self.employees[i].can_inject}
    IN  /\ HeadcountConstraint(assigned, requirement.num_people)
        /\ CapabilityConstraint(leader_indices, assigned,
                CapabilityMinimum(self.relaxed_requirements,
                                  requirement.num_leaders))
        /\ CapabilityConstraint(injector_indices, assigned,
                CapabilityMinimum(self.relaxed_requirements,
                                  requirement.num_injectors))
        /\ CapabilityConstraint(leader_or_injector_indices, assigned,
                CapabilityMinimum(self.relaxed_requirements,
                                  requirement.num_leader_or_injector))

\* if requirement is None: continue
RequirementOrSkip(self, requirement, assigned) ==
    requirement # NoRequirement =>
        ShiftRequirementConstraints(self, requirement, assigned)

\* _add_shift_requirement_constraints
add_shift_requirement_constraints(self, shifts, x) ==
    \A s \in 1..Len(shifts) :
        RequirementOrSkip(self,
                          requirement_map(self, weekday(shifts[s].date) + 1,
                                          shifts[s].shift_time),
                          AssignedTo(x, s))

\* _add_daily_limit_constraints
add_daily_limit_constraints(shifts, row) ==
    \A date_val \in DatesOf(shifts) :
        DailySum(shifts, row, date_val) <= DailyShiftLimit

\* The relaxed range as the relaxation form words it: 8 to 11 shifts.
WeeklyShiftsUpToEleven(relaxed_shifts, total) ==
    IF relaxed_shifts
    THEN total >= RelaxedMinWeeklyShifts /\ total <= RelaxedMaxWeeklyShifts + 1
    ELSE total = StrictWeeklyShifts

\* The relaxed range as the evaluator's docstring words it: 8 or 9 shifts.
WeeklyShiftsEightOrNine(relaxed_shifts, total) ==
    IF relaxed_shifts
    THEN total >= RelaxedMinWeeklyShifts /\ total <= RelaxedMaxWeeklyShifts - 1
    ELSE total = StrictWeeklyShifts

\* The weekly shift total allowed to a full-time employee.
WeeklyShiftsConstraint(relaxed_shifts, total) ==
    IF relaxed_shifts
    THEN total >= RelaxedMinWeeklyShifts /\ total <= RelaxedMaxWeeklyShifts
    ELSE total = StrictWeeklyShifts

\* The number of worked days allowed to a full-time employee in a week.
WorkDaysConstraint(relaxed_days_off, work_days) ==
    IF relaxed_days_off
    THEN work_days <= RelaxedMaxWorkDays
    ELSE work_days <= StrictMaxWorkDays

\* The weekly constraints posted for part-time employees as well.
add_fulltime_weekly_constraints_for_everyone(self, shifts, emp_idx, row) ==
    \A week_key \in {isocalendar(d) : d \in DatesOf(shifts)} :
        LET week_shifts == {s \in 1..Len(shifts) :
                               isocalendar(shifts[s].date) = week_key}
            is_working_on_day ==
                {shifts[s].date : s \in row \cap week_shifts}
        IN  /\ WeeklyShiftsConstraint(self.relaxed_shifts,
                                      Cardinality(row \cap week_shifts))
            /\ WorkDaysConstraint(self.relaxed_days_off,
                                  Cardinality(is_working_on_day))

\* _add_fulltime_weekly_constraints, for one employee: the shifts are grouped
\* by isocalendar week; is_working_on_day is the maximum of the day's
\* variables.
add_fulltime_weekly_constraints(self, shifts, emp_idx, row) ==
    self.employees[emp_idx].is_fulltime =>
        \A week_key \in {isocalendar(d) : d \in DatesOf(shifts)} :
            LET week_shifts == {s \in 1..Len(shifts) :
                                   isocalendar(shifts[s].date) = week_key}
                is_working_on_day ==
                    {shifts[s].date : s \in row \cap week_shifts}
            IN  /\ WeeklyShiftsConstraint(self.relaxed_shifts,
                                          Cardinality(row \cap week_shifts))
                /\ WorkDaysConstraint(self.relaxed_days_off,
                                      Cardinality(is_working_on_day))

\* The rows of shift_vars one employee can take under the constraints that
\* mention this employee alone.
EmployeeRows(self, shifts, emp_idx) ==
    {row \in SUBSET FreeShifts(self, shifts, emp_idx) :
        /\ add_daily_limit_constraints(shifts, row)
        /\ add_fulltime_weekly_constraints(self, shifts, emp_idx, row)
        /\ add_pre_assignment_constraints(self, shifts, emp_idx, row)}

RECURSIVE RowProducts(_, _, _)
RowProducts(self, shifts, n) ==
    IF n = 0
    THEN {<<>>}
    ELSE {Append(x, row) : x \in RowProducts(self, shifts, n - 1),
                           row \in EmployeeRows(self, shifts, n)}

\* _add_constraints: the assignments that satisfy every posted constraint.
add_constraints(self, shifts) ==
    {x \in RowProducts(self, shifts, Len(self.employees)) :
        add_shift_requirement_constraints(self, shifts, x)}

\* The second constraint without its (1 - bonus_var) factor: the bonus is
\* open to a day of three shifts.
BonusAllowedUpToAll(daily_sum, num_shifts, bonus) ==
    /\ daily_sum >= 2 * bonus
    /\ daily_sum <= 2 + (num_shifts - 2)

\* x satisfies every constraint _add_constraints posts.
SatisfiesConstraints(self, shifts, x) ==
    /\ \A e \in 1..Len(self.employees) :
            /\ x[e] \subseteq FreeShifts(self, shifts, e)
            /\ add_daily_limit_constraints(shifts, x[e])
            /\ add_fulltime_weekly_constraints(self, shifts, e, x[e])
            /\ add_pre_assignment_constraints(self, shifts, e, x[e])
    /\ add_shift_requirement_constraints(self, shifts, x)

\* The first constraint with bonus_var in place of 2 * bonus_var: the bonus
\* is open to a day of one shift.
BonusAllowedFromOne(daily_sum, num_shifts, bonus) ==
    /\ daily_sum >= bonus
    /\ daily_sum <= 2 + (num_shifts - 2) * (1 - bonus)

\* _add_objective: a bonus variable of (employee, date) can be 1 only when
\* 2 * 1 <= daily_sum <= 2 + (n - 2) * (1 - 1); the objective is 10 times the
\* number of bonus variables set.
BonusAllowed(daily_sum, num_shifts, bonus) ==
    /\ daily_sum >= 2 * bonus
    /\ daily_sum <= 2 + (num_shifts - 2) * (1 - bonus)

MaxObjective(shifts, x) ==
    LET bonus_dates == {d \in DatesOf(shifts) :
                           Cardinality(ShiftsOnDate(shifts, d)) >= 2}
    IN  BonusPoints * Cardinality(
            {ed \in (1..Len(x)) \X bonus_dates :
                BonusAllowed(DailySum(shifts, x[ed[1]], ed[2]),
                             Cardinality(ShiftsOnDate(shifts, ed[2])), 1)})

WithObjective(shifts, solutions, best) ==
    {x \in solutions : MaxObjective(shifts, x) = best}

\* self.model.Maximize(sum(bonus_vars) * 10)
BestOf(shifts, solutions) ==
    WithObjective(shifts, solutions,
                  SetMax({MaxObjective(shifts, x) : x \in solutions}))

\* The names employees are given, in alphabetical order.
EmployeeNames == <<"E1", "E2", "E3", "E4">>

NameRank(name) ==
    CHOOSE k \in 1..Len(EmployeeNames) : EmployeeNames[k] = name

\* The assigned employees listed alphabetically by name.
RECURSIVE InNameOrder(_, _)
InNameOrder(self, indices) ==
    IF indices = {}
    THEN <<>>
    ELSE LET last == CHOOSE i \in indices :
                        \A j \in indices :
                            NameRank(self.employees[j].name)
                                <= NameRank(self.employees[i].name)
         IN  Append(InNameOrder(self, indices \ {last}), self.employees[last])

\* A set of employee indices as the list in increasing index.
RECURSIVE InIndexOrder(_, _)
InIndexOrder(self, indices) ==
    IF indices = {}
    THEN <<>>
    ELSE Append(InIndexOrder(self, indices \ {SetMax(indices)}),
                self.employees[SetMax(indices)])

\* _parse_solution
parse_solution(self, shifts, x) ==
    [shifts |->
        [s \in 1..Len(shifts) |->
            [date |-> shifts[s].date,
             shift_time |-> shifts[s].shift_time,
             assigned_employees |-> InIndexOrder(self, AssignedTo(x, s))]]]


(***************************************************************************)
(* State: the attributes of one ORToolsScheduler, what its last            *)
(* generate_schedules call returned, and the loop of                       *)
(* generate_month_template.                                                *)
(***************************************************************************)
VARIABLES
    employees,              \* self.employees
    requirements,           \* self.requirements
    time_off_requests,      \* self.time_off_requests
    pre_assigned_shifts,    \* self.pre_assigned_shifts
    start_date,             \* self.start_date
    num_weeks,              \* self.num_weeks
    relaxed_requirements,   \* self.relaxed_requirements
    relaxed_shifts,         \* self.relaxed_shifts
    relaxed_days_off,       \* self.relaxed_days_off
    model_infeasible,       \* self.model: constraints posted by an earlier
                            \* generate_schedules call have no solution
    pc,                     \* "ready", or "returned" after generate_schedules
    valid_schedules,        \* the returned list of schedules
    diagnostics,            \* the returned diagnostics
    week, day, shift_idx,   \* generate_month_template: the loop counters
    shifts,                 \* generate_month_template: the list being built
    ui,                     \* schedule_generator.py: where the page is
    session,                \* schedule_generator.py: st.session_state
    evaluated,              \* constraints.py: the arguments of an evaluator
    verdict,                \* constraints.py: what the evaluator returned
    resolved_from           \* the schedule a second solve was pinned to

vars == <<employees, requirements, time_off_requests, pre_assigned_shifts,
          start_date, num_weeks, relaxed_requirements, relaxed_shifts,
          relaxed_days_off, model_infeasible, pc, valid_schedules,
          diagnostics, week, day, shift_idx, shifts, ui, session,
          evaluated, verdict, resolved_from>>

inputs == <<employees, requirements, time_off_requests, pre_assigned_shifts,
            start_date, num_weeks>>

flags == <<relaxed_requirements, relaxed_shifts, relaxed_days_off>>

template_vars == <<week, day, shift_idx, shifts>>

\* The state of the scheduler's callers.
caller_vars == <<ui, session, evaluated, verdict, resolved_from>>

Self == [employees |-> employees,
         requirements |-> requirements,
         time_off_requests |-> time_off_requests,
         pre_assigned_shifts |-> pre_assigned_shifts,
         start_date |-> start_date,
         num_weeks |-> num_weeks,
         relaxed_requirements |-> relaxed_requirements,
         relaxed_shifts |-> relaxed_shifts,
         relaxed_days_off |-> relaxed_days_off]

NoDiagnostics == [solver_status |-> "NONE"]

(***************************************************************************)
(* The inputs the scheduler is constructed with.                           *)
(***************************************************************************)
AllDay == {"Morning", "Midday", "Evening"}

\* Monday morning and midday, an empty list for Tuesday, no other weekday.
AvMonday == (1 :> {"Morning", "Midday"}) @@ (2 :> {})

\* Monday to Wednesday all day, Thursday morning and midday: 11 shifts.
AvFourDays == [d \in 1..3 |-> AllDay] @@ (4 :> {"Morning", "Midday"})

\* Monday to Friday morning and midday, Saturday morning: 11 shifts.
AvSixDays == [d \in 1..5 |-> {"Morning", "Midday"}] @@ (6 :> {"Morning"})

PartTimeProfiles ==
    {[is_leader |-> l, can_inject |-> i, available_shifts |-> AvMonday,
      is_fulltime |-> FALSE] :
        l \in BOOLEAN, i \in BOOLEAN}

FullTimeProfiles ==
    {[is_leader |-> FALSE, can_inject |-> FALSE, available_shifts |-> a,
      is_fulltime |-> TRUE] : a \in {AvFourDays, AvSixDays}}

Rosters(profiles, n) ==
    {[i \in 1..n |-> [name |-> EmployeeNames[i]] @@ f[i]] :
        f \in [1..n -> profiles]}

\* The Monday of the window and the first day after it.
WindowMonday(sd) == sd + ((7 - weekday(sd)) % 7)

AfterWindow(sd, nw) == sd + 7 * nw

\* One requirement row, for Monday morning: at most one capability minimum
\* is set, and none exceeds the headcount.
RequirementRows ==
    {[day_of_week |-> 1, shift_time |-> "Morning", num_people |-> p,
      num_leaders |-> m[1], num_injectors |-> m[2],
      num_leader_or_injector |-> m[3]] :
        p \in 0..MaxPeople,
        m \in {t \in (0..MaxMinimum) \X (0..MaxMinimum) \X (0..MaxMinimum) :
                  Cardinality({k \in 1..3 : t[k] > 0}) <= 1}}

RequirementLists == {<<>>} \cup {<<r>> : r \in RequirementRows}

TimeOffLists(sd) ==
    {{}, {[employee_name |-> "E1", date |-> WindowMonday(sd),
           shift_time |-> "Morning"]}}

PreAssignedLists(sd, nw) ==
    {{}} \cup
    {{[employee_name |-> n, date |-> WindowMonday(sd), shift_time |-> "Morning"]} :
        n \in {"E1", "Ghost"}} \cup
    {{[employee_name |-> "E1", date |-> AfterWindow(sd, nw),
       shift_time |-> "Morning"]}}

\* What __init__ sets besides the arguments, and the idle template loop.
InitObject ==
    /\ relaxed_requirements = FALSE
    /\ relaxed_shifts = FALSE
    /\ relaxed_days_off = FALSE
    /\ model_infeasible = FALSE
    /\ pc = "ready"
    /\ valid_schedules = <<>>
    /\ diagnostics = NoDiagnostics

IdleTemplate ==
    /\ week = 0
    /\ day = 0
    /\ shift_idx = 0
    /\ shifts = <<>>

\* st.session_state with none of the generator's keys.
NoSession == <<>>

NoValue == [none |-> TRUE]

\* No page is open, no evaluator is being called, nothing was solved twice.
IdleCallers ==
    /\ ui = [at |-> "closed"]
    /\ session = NoSession
    /\ evaluated = NoValue
    /\ verdict = NoValue
    /\ resolved_from = NoValue

PlainProfile == [is_leader |-> FALSE, can_inject |-> FALSE,
                 available_shifts |-> AvMonday, is_fulltime |-> FALSE]

\* Part-time rosters of every capability mix against every requirement row.
InitRequirements ==
    /\ \E n \in 1..MaxEmployees : employees \in Rosters(PartTimeProfiles, n)
    /\ requirements \in {l \in RequirementLists :
            \A i \in 1..Len(l) :
                /\ l[i].num_leaders <= l[i].num_people
                /\ l[i].num_injectors <= l[i].num_people
                /\ l[i].num_leader_or_injector <= l[i].num_people}
    /\ start_date = 0
    /\ num_weeks = UiNumWeeks
    /\ time_off_requests = {}
    /\ pre_assigned_shifts = {}

\* Every mix of time-off record, pre-assignment record and start date.
InitRecords ==
    /\ \E n \in 1..MaxEmployees : employees \in Rosters({PlainProfile}, n)
    /\ requirements \in {<<>>} \cup
            {<<r>> : r \in {q \in RequirementRows :
                              q.num_people = 1 /\ q.num_leaders = 0
                              /\ q.num_injectors = 0
                              /\ q.num_leader_or_injector = 0}}
    /\ start_date \in 0..MaxStartDate
    /\ num_weeks = UiNumWeeks
    /\ time_off_requests \in TimeOffLists(start_date)
    /\ pre_assigned_shifts \in PreAssignedLists(start_date, num_weeks)

Init ==
    /\ InitRequirements \/ InitRecords
    /\ InitObject
    /\ IdleTemplate
    /\ IdleCallers

\* A full-time employee, alone or followed by part-time colleagues, with or
\* without a headcount for Monday morning and a time-off record.
InitFullTime ==
    /\ \E n \in 1..MaxEmployees :
            employees \in {r \in Rosters(FullTimeProfiles \cup {PlainProfile}, n) :
                             /\ r[1].is_fulltime
                             /\ \A i \in 2..n : ~r[i].is_fulltime}
    /\ requirements \in {l \in RequirementLists :
            \A i \in 1..Len(l) :
                /\ l[i].num_leaders = 0
                /\ l[i].num_injectors = 0
                /\ l[i].num_leader_or_injector = 0}
    /\ start_date = 0
    /\ num_weeks = UiNumWeeks
    /\ time_off_requests \in TimeOffLists(start_date)
    /\ pre_assigned_shifts = {}
    /\ InitObject
    /\ IdleTemplate
    /\ IdleCallers

(***************************************************************************)
(* ORToolsScheduler.relax_constraints: sets the three flags.  The pair     *)
(* (valid_schedules, diagnostics) is what the last generate_schedules call *)
(* returned to its caller; the caller drops it when it prepares the next   *)
(* call, and self.model keeps whatever was posted into it.                 *)
(***************************************************************************)
RelaxConstraints ==
    \E r \in BOOLEAN, s \in BOOLEAN, d \in BOOLEAN :
        /\ relaxed_requirements' = r
        /\ relaxed_shifts' = s
        /\ relaxed_days_off' = d
        /\ pc' = "ready"
        /\ valid_schedules' = <<>>
        /\ diagnostics' = NoDiagnostics
        /\ UNCHANGED <<inputs, model_infeasible, template_vars, caller_vars>>

(***************************************************************************)
(* ORToolsScheduler.generate_schedules                                     *)
(***************************************************************************)
\* self.solver.Solve(self.model): the status and the values of shift_vars.
Solve(template, solutions) ==
    {[status |-> "UNKNOWN", values |-> <<>>]} \cup
    (IF solutions = {}
     THEN {[status |-> "INFEASIBLE", values |-> <<>>]}
     ELSE {[status |-> "OPTIMAL", values |-> <<x>>] :
                x \in BestOf(template, solutions)} \cup
          {[status |-> "FEASIBLE", values |-> <<x>>] : x \in solutions})

\* A result kept only when the solver proved it optimal.
FoundOptimalOnly(status) == status = "OPTIMAL"

\* if status == cp_model.OPTIMAL or status == cp_model.FEASIBLE
FoundSolution(status) == status = "OPTIMAL" \/ status = "FEASIBLE"

Diagnostics(self, status, schedules) ==
    [solver_status |-> status,
     solve_time |-> "elapsed",
     num_conflicts |-> "NumConflicts",
     num_branches |-> "NumBranches",
     wall_time |-> "WallTime",
     relaxed_requirements |-> self.relaxed_requirements,
     relaxed_shifts |-> self.relaxed_shifts,
     relaxed_days_off |-> self.relaxed_days_off,
     valid_count |-> Len(schedules)]

\* generate_schedules from self.solver.Solve on: `posted` are the assignments
\* that satisfy the constraints this call added to self.model.
SolveAndReturn(self, template_shifts, posted) ==
    \E result \in Solve(template_shifts,
                        IF model_infeasible THEN {} ELSE posted) :
        /\ valid_schedules' =
                IF FoundSolution(result.status)
                THEN <<parse_solution(self, template_shifts, result.values[1])>>
                ELSE <<>>
        /\ diagnostics' = Diagnostics(self, result.status, valid_schedules')
        /\ model_infeasible' = (model_infeasible \/ posted = {})
        /\ pc' = "returned"
        /\ UNCHANGED <<inputs, flags, template_vars, caller_vars>>

BuildAndSolve(self, template_shifts) ==
    SolveAndReturn(self, template_shifts, add_constraints(self, template_shifts))

GenerateSchedules ==
    /\ pc = "ready"
    /\ BuildAndSolve(Self, generate_month_template(start_date, num_weeks))

Next ==
    \/ RelaxConstraints
    \/ GenerateSchedules

Spec == Init /\ [][Next]_vars

SpecFullTime == InitFullTime /\ [][Next]_vars

\* Part-time and full-time rosters together.
InitAnyRoster == Init \/ InitFullTime

SpecAnyRoster == InitAnyRoster /\ [][Next]_vars

\* One or two part-time employees whose names run against their positions
\* in the roster, with or without a headcount for Monday morning.
InitNames ==
    /\ \E n \in 1..MaxEmployees :
            employees = [i \in 1..n |->
                            [name |-> EmployeeNames[n + 1 - i]] @@ PlainProfile]
    /\ requirements \in {l \in RequirementLists :
            \A i \in 1..Len(l) :
                /\ l[i].num_leaders = 0
                /\ l[i].num_injectors = 0
                /\ l[i].num_leader_or_injector = 0}
    /\ start_date = 0
    /\ num_weeks = UiNumWeeks
    /\ time_off_requests \in TimeOffLists(start_date)
    /\ pre_assigned_shifts = {}
    /\ InitObject
    /\ IdleTemplate
    /\ IdleCallers

SpecNames == InitNames /\ [][Next]_vars

\* E1 pre-assigned to Monday morning (free unless asked off), to Monday
\* evening (not among Monday's shift times) or to Tuesday morning (Tuesday's
\* list is empty), with or without the Monday morning time-off record.
InitConflicts ==
    /\ \E n \in 1..MaxEmployees : employees \in Rosters({PlainProfile}, n)
    /\ requirements \in {<<>>} \cup
            {<<r>> : r \in {q \in RequirementRows :
                              q.num_people = 1 /\ q.num_leaders = 0
                              /\ q.num_injectors = 0
                              /\ q.num_leader_or_injector = 0}}
    /\ start_date = 0
    /\ num_weeks = UiNumWeeks
    /\ time_off_requests \in TimeOffLists(start_date)
    /\ pre_assigned_shifts \in
            {{[employee_name |-> "E1", date |-> d, shift_time |-> t]} :
                <<d, t>> \in {<<0, "Morning">>, <<0, "Evening">>,
                              <<1, "Morning">>}}
    /\ InitObject
    /\ IdleTemplate
    /\ IdleCallers

SpecConflicts == InitConflicts /\ [][Next]_vars

\* Monday only, Morning only.
AvMondayMorning == (1 :> {"Morning"})

\* Monday, all three shifts.
AvMondayAllDay == (1 :> AllDay)

\* E1 can work all of Monday; the colleagues the morning, the morning and
\* midday, or all of it; with or without a headcount for Monday morning.
InitOneDay ==
    /\ \E n \in 1..MaxEmployees :
        \E av \in [2..n -> {AvMondayMorning, AvMonday, AvMondayAllDay}] :
            employees = [i \in 1..n |->
                [name |-> EmployeeNames[i], is_leader |-> FALSE,
                 can_inject |-> FALSE, is_fulltime |-> FALSE,
                 available_shifts |->
                    IF i = 1 THEN AvMondayAllDay ELSE av[i]]]
    /\ requirements \in {l \in RequirementLists :
            \A i \in 1..Len(l) :
                /\ l[i].num_leaders = 0
                /\ l[i].num_injectors = 0
                /\ l[i].num_leader_or_injector = 0}
    /\ start_date = 0
    /\ num_weeks = UiNumWeeks
    /\ time_off_requests = {}
    /\ pre_assigned_shifts = {}
    /\ InitObject
    /\ IdleTemplate
    /\ IdleCallers

SpecOneDay == InitOneDay /\ [][Next]_vars

(***************************************************************************)
(* A second ORToolsScheduler, constructed with the same employees,         *)
(* requirements, window and flags, every assignment of the returned        *)
(* schedule as a PreAssignedShift record, and no time-off record.          *)
(***************************************************************************)
AssignmentsOf(schedule) ==
    UNION {{[employee_name |-> schedule.shifts[s].assigned_employees[i].name,
             date |-> schedule.shifts[s].date,
             shift_time |-> schedule.shifts[s].shift_time] :
                i \in 1..Len(schedule.shifts[s].assigned_employees)} :
           s \in 1..Len(schedule.shifts)}

PinReturnedSchedule ==
    /\ pc = "returned"
    /\ Len(valid_schedules) > 0
    /\ resolved_from = NoValue
    /\ resolved_from' = [schedule |-> valid_schedules[1],
                         relaxed_requirements |-> relaxed_requirements,
                         relaxed_shifts |-> relaxed_shifts,
                         relaxed_days_off |-> relaxed_days_off]
    /\ pre_assigned_shifts' = AssignmentsOf(valid_schedules[1])
    /\ time_off_requests' = {}
    /\ model_infeasible' = FALSE
    /\ pc' = "ready"
    /\ valid_schedules' = <<>>
    /\ diagnostics' = NoDiagnostics
    /\ UNCHANGED <<employees, requirements, start_date, num_weeks, flags,
                   template_vars, ui, session, evaluated, verdict>>

NextResolve ==
    \/ RelaxConstraints
    \/ GenerateSchedules
    \/ PinReturnedSchedule

SpecResolve == InitNames /\ [][NextResolve]_vars

\* The keyword arguments of ORToolsScheduler.__init__ and the fields of
\* self.solver.parameters that generate_schedules assigns.
ConstructorArguments ==
    {"employees", "requirements", "time_off_requests", "pre_assigned_shifts",
     "start_date", "num_weeks", "max_time_seconds"}

SolverParametersSet == {"max_time_in_seconds", "log_search_progress"}

\* A second scheduler is constructed with the inputs of the first, given the
\* same flags, and is about to solve; what the first returned is kept.
SolveAgain ==
    /\ pc = "returned"
    /\ resolved_from = NoValue
    /\ resolved_from' = [first |-> valid_schedules,
                         solver_status |-> diagnostics.solver_status]
    /\ model_infeasible' = FALSE
    /\ pc' = "ready"
    /\ valid_schedules' = <<>>
    /\ diagnostics' = NoDiagnostics
    /\ UNCHANGED <<inputs, flags, template_vars, ui, session, evaluated,
                   verdict>>

NextRepeat ==
    \/ RelaxConstraints
    \/ GenerateSchedules
    \/ SolveAgain

SpecRepeat == InitNames /\ [][NextRepeat]_vars

(***************************************************************************)
(* A week in which every shift needs one person: two full-time employees   *)
(* who can work every shift, alone or with a part-time colleague who can   *)
(* too, or two part-time employees.  The 2^21 and 3^21 ways of staffing the week are too many for      *)
(* add_constraints, which multiplies the employees' rows before it looks   *)
(* at the headcounts; here the headcounts come first.                      *)
(***************************************************************************)
AvEveryShift == [d \in 1..DaysPerWeek |-> AllDay]

EveryShiftNeedsOne ==
    [k \in 1..(DaysPerWeek * Len(shift_times)) |->
        [day_of_week |-> ((k - 1) \div Len(shift_times)) + 1,
         shift_time |-> shift_times[((k - 1) % Len(shift_times)) + 1],
         num_people |-> 1, num_leaders |-> 0, num_injectors |-> 0,
         num_leader_or_injector |-> 0]]

FullWeekStaff(i, l, c, fulltime) ==
    [name |-> EmployeeNames[i], is_leader |-> l, can_inject |-> c,
     is_fulltime |-> fulltime, available_shifts |-> AvEveryShift]

InitFullWeek ==
    /\ employees \in
            {<<FullWeekStaff(1, FALSE, FALSE, TRUE),
               FullWeekStaff(2, FALSE, FALSE, TRUE)>>,
             <<FullWeekStaff(1, FALSE, FALSE, FALSE),
               FullWeekStaff(2, FALSE, FALSE, FALSE)>>} \cup
            {<<FullWeekStaff(1, FALSE, FALSE, TRUE),
               FullWeekStaff(2, FALSE, FALSE, TRUE),
               FullWeekStaff(3, l, c, FALSE)>> : l \in BOOLEAN, c \in BOOLEAN}
    /\ requirements = EveryShiftNeedsOne
    /\ start_date = 0
    /\ num_weeks = UiNumWeeks
    /\ time_off_requests = {}
    /\ pre_assigned_shifts = {}
    /\ InitObject
    /\ IdleTemplate
    /\ IdleCallers

\* The weekly total of a row, in a window of one isocalendar week.
WeekTotalAllowed(self, emp_idx, row) ==
    self.employees[emp_idx].is_fulltime =>
        WeeklyShiftsConstraint(self.relaxed_shifts, Cardinality(row))

\* Two employees and a headcount of one on every shift: an assignment is a
\* row of the first employee and its complement.  The weekly totals are
\* looked at first, the whole of the constraints after.
TwoStaffSolutions(self, template_shifts, all) ==
    {<<row, all \ row>> :
        row \in {r \in SUBSET all :
                    /\ WeekTotalAllowed(self, 1, r)
                    /\ WeekTotalAllowed(self, 2, all \ r)
                    /\ SatisfiesConstraints(self, template_shifts,
                                            <<r, all \ r>>)}}

\* The week, begun on weekday k, goes to employee a for its first ten
\* shifts, to the other of the first two for the next ten and to the last
\* employee of the roster for the last.
Handover(template_shifts, k, a, last) ==
    LET position(s) ==
            ((weekday(template_shifts[s].date) + DaysPerWeek - k) % DaysPerWeek)
                * Len(shift_times)
            + (CHOOSE t \in 1..Len(shift_times) :
                    shift_times[t] = template_shifts[s].shift_time) - 1
        owner(s) == IF position(s) < StrictWeeklyShifts THEN a
                    ELSE IF position(s) < 2 * StrictWeeklyShifts THEN 3 - a
                    ELSE last
    IN  [e \in 1..last |-> {s \in 1..Len(template_shifts) : owner(s) = e}]

\* Two full-time employees: every assignment is looked at.  With a
\* part-time employee in the roster the solver's answers are drawn from the
\* handovers that satisfy the constraints: one of them is enough for the
\* model to be feasible, and which of them is optimal is not looked at here.
FullWeekSolutions(self, template_shifts) ==
    IF \A e \in 1..Len(self.employees) : self.employees[e].is_fulltime
    THEN TwoStaffSolutions(self, template_shifts, 1..Len(template_shifts))
    ELSE {x \in {Handover(template_shifts, k, a, Len(self.employees)) :
                    k \in 0..(DaysPerWeek - 1), a \in 1..2} :
            SatisfiesConstraints(self, template_shifts, x)}

GenerateSchedulesFullWeek ==
    /\ pc = "ready"
    /\ SolveAndReturn(Self, generate_month_template(start_date, num_weeks),
                      FullWeekSolutions(Self,
                          generate_month_template(start_date, num_weeks)))

NextFullWeek ==
    \/ RelaxConstraints
    \/ GenerateSchedulesFullWeek

SpecFullWeek == InitFullWeek /\ [][NextFullWeek]_vars

(***************************************************************************)
(* Windows of one or more weeks in which every shift has a requirement     *)
(* that asks for nobody: part-time employees free on Monday morning, the   *)
(* first of them perhaps at midday too, with or without a time-off record. *)
(***************************************************************************)
EveryShiftNeedsNobody ==
    [k \in 1..(DaysPerWeek * Len(shift_times)) |->
        [day_of_week |-> ((k - 1) \div Len(shift_times)) + 1,
         shift_time |-> shift_times[((k - 1) % Len(shift_times)) + 1],
         num_people |-> 0, num_leaders |-> 0, num_injectors |-> 0,
         num_leader_or_injector |-> 0]]

InitNobodyNeeded ==
    /\ \E n \in 1..MaxEmployees, av \in {AvMondayMorning, AvMonday},
           l \in BOOLEAN :
            employees = [i \in 1..n |->
                [name |-> EmployeeNames[i], is_leader |-> l,
                 can_inject |-> FALSE, is_fulltime |-> FALSE,
                 available_shifts |->
                    IF i = 1 THEN av ELSE AvMondayMorning]]
    /\ requirements = EveryShiftNeedsNobody
    /\ start_date \in 0..MaxStartDate
    /\ num_weeks \in 1..MaxNobodyWeeks
    /\ time_off_requests \in TimeOffLists(start_date)
    /\ pre_assigned_shifts = {}
    /\ InitObject
    /\ IdleTemplate
    /\ IdleCallers

SpecNobodyNeeded == InitNobodyNeeded /\ [][Next]_vars

(***************************************************************************)
(* ui/schedule_generator.py.  Every submission of a form reruns the page   *)
(* script; ui.at is where the script is: "page" when it has finished and   *)
(* the forms are on screen, or after one of its calls into the scheduler.  *)
(***************************************************************************)
\* start_date - timedelta(days=start_date.weekday())
SnapToMonday(d) == d - weekday(d)

\* st.session_state.get(key, default)
SessionGet(state, key, default) ==
    IF key \in DOMAIN state THEN state[key] ELSE default

\* The relaxation form is on screen after the generate form's solve kept
\* its stale flags.
SubmitGenerateKeepingFlags ==
    /\ ui.at = "page"
    /\ \E d \in 0..MaxStartDate : start_date' = SnapToMonday(d)
    /\ num_weeks' = UiNumWeeks
    /\ relaxed_requirements' = relaxed_requirements
    /\ relaxed_shifts' = relaxed_shifts
    /\ relaxed_days_off' = relaxed_days_off
    /\ model_infeasible' = FALSE
    /\ pc' = "ready"
    /\ valid_schedules' = <<>>
    /\ diagnostics' = NoDiagnostics
    /\ ui' = [at |-> "generate_constructed"]
    /\ UNCHANGED <<employees, requirements, time_off_requests,
                   pre_assigned_shifts, template_vars, session, evaluated,
                   verdict, resolved_from>>

\* if generate: scheduler = ORToolsScheduler(...)
SubmitGenerate ==
    /\ ui.at = "page"
    /\ \E d \in 0..MaxStartDate : start_date' = SnapToMonday(d)
    /\ num_weeks' = UiNumWeeks
    /\ relaxed_requirements' = FALSE
    /\ relaxed_shifts' = FALSE
    /\ relaxed_days_off' = FALSE
    /\ model_infeasible' = FALSE
    /\ pc' = "ready"
    /\ valid_schedules' = <<>>
    /\ diagnostics' = NoDiagnostics
    /\ ui' = [at |-> "generate_constructed"]
    /\ UNCHANGED <<employees, requirements, time_off_requests,
                   pre_assigned_shifts, template_vars, session, evaluated,
                   verdict, resolved_from>>

\* relaxed_info = st.session_state.get('relaxed_info', {})
NoRelaxedInfo == [requirements |-> FALSE, shifts |-> FALSE, days_off |-> FALSE]

\* any(relaxed_info.values())
AnyRelaxedInfo(relaxed_info) ==
    relaxed_info.requirements \/ relaxed_info.shifts \/ relaxed_info.days_off

\* if schedules: the st.success line and the relaxations listed under it
SuccessMessage(state, diag) ==
    [relaxed |-> AnyRelaxedInfo(SessionGet(state, "relaxed_info",
                                           NoRelaxedInfo)),
     listed |-> {k \in {"requirements", "shifts", "days_off"} :
                    SessionGet(state, "relaxed_info", NoRelaxedInfo)[k]}]

\* st.session_state.generated_schedules = schedules, and the two other keys;
\* then the result is shown.
StoreGenerated ==
    /\ ui.at = "generate_constructed"
    /\ pc = "returned"
    /\ session' = [k \in DOMAIN session \cup
                        {"generated_schedules", "start_date", "diagnostics"} |->
                        IF k = "generated_schedules" THEN valid_schedules
                        ELSE IF k = "start_date" THEN start_date
                        ELSE IF k = "diagnostics" THEN diagnostics
                        ELSE session[k]]
    /\ ui' = IF valid_schedules # <<>>
             THEN [at |-> "page",
                   success |-> SuccessMessage(session, diagnostics)]
             ELSE [at |-> "page"]
    /\ UNCHANGED <<inputs, flags, model_infeasible, pc, valid_schedules,
                   diagnostics, template_vars, evaluated, verdict,
                   resolved_from>>

\* if 'diagnostics' in st.session_state and not
\* st.session_state.get('generated_schedules')
RelaxFormShown ==
    /\ "diagnostics" \in DOMAIN session
    /\ SessionGet(session, "generated_schedules", <<>>) = <<>>

\* if regenerate: scheduler = ORToolsScheduler(...), with the three
\* checkboxes as the user left them
SubmitRelax ==
    /\ ui.at = "page"
    /\ RelaxFormShown
    /\ \E r \in BOOLEAN, s \in BOOLEAN, d \in BOOLEAN :
        ui' = [at |-> "relax_constructed", relax_requirements |-> r,
               relax_shifts |-> s, relax_days_off |-> d]
    /\ start_date' = SessionGet(session, "start_date", start_date)
    /\ num_weeks' = UiNumWeeks
    /\ relaxed_requirements' = FALSE
    /\ relaxed_shifts' = FALSE
    /\ relaxed_days_off' = FALSE
    /\ model_infeasible' = FALSE
    /\ pc' = "constructed"
    /\ valid_schedules' = <<>>
    /\ diagnostics' = NoDiagnostics
    /\ UNCHANGED <<employees, requirements, time_off_requests,
                   pre_assigned_shifts, template_vars, session, evaluated,
                   verdict, resolved_from>>

\* scheduler.relax_constraints(requirements=relax_requirements, ...)
RelaxSelected ==
    /\ ui.at = "relax_constructed"
    /\ pc = "constructed"
    /\ relaxed_requirements' = ui.relax_requirements
    /\ relaxed_shifts' = ui.relax_shifts
    /\ relaxed_days_off' = ui.relax_days_off
    /\ pc' = "ready"
    /\ ui' = [ui EXCEPT !.at = "relax_relaxed"]
    /\ UNCHANGED <<inputs, model_infeasible, valid_schedules, diagnostics,
                   template_vars, session, evaluated, verdict, resolved_from>>

\* the four st.session_state assignments and st.rerun()
StoreRelaxed ==
    /\ ui.at = "relax_relaxed"
    /\ pc = "returned"
    /\ session' = [k \in DOMAIN session \cup
                        {"generated_schedules", "start_date", "diagnostics",
                         "relaxed_info"} |->
                        IF k = "generated_schedules" THEN valid_schedules
                        ELSE IF k = "start_date" THEN start_date
                        ELSE IF k = "diagnostics" THEN diagnostics
                        ELSE [requirements |-> ui.relax_requirements,
                              shifts |-> ui.relax_shifts,
                              days_off |-> ui.relax_days_off]]
    /\ ui' = [at |-> "page"]
    /\ UNCHANGED <<inputs, flags, model_infeasible, pc, valid_schedules,
                   diagnostics, template_vars, evaluated, verdict,
                   resolved_from>>

\* The page is open on the data of the sheets; no scheduler exists yet.
InitUi ==
    /\ \E n \in 1..MaxEmployees :
            employees \in {r \in Rosters(PartTimeProfiles, n) :
                \A i \in 1..n :
                    (~r[i].can_inject) /\ (i > 1 => ~r[i].is_leader)}
    /\ requirements \in {l \in RequirementLists :
            \A i \in 1..Len(l) :
                /\ l[i].num_people >= 1
                /\ l[i].num_leaders <= l[i].num_people
                /\ l[i].num_injectors = 0
                /\ l[i].num_leader_or_injector = 0}
    /\ time_off_requests = {}
    /\ pre_assigned_shifts = {}
    /\ start_date = 0
    /\ num_weeks = UiNumWeeks
    /\ relaxed_requirements = FALSE
    /\ relaxed_shifts = FALSE
    /\ relaxed_days_off = FALSE
    /\ model_infeasible = FALSE
    /\ pc = "none"
    /\ valid_schedules = <<>>
    /\ diagnostics = NoDiagnostics
    /\ IdleTemplate
    /\ ui = [at |-> "page"]
    /\ session = NoSession
    /\ evaluated = NoValue
    /\ verdict = NoValue
    /\ resolved_from = NoValue

NextUi ==
    \/ SubmitGenerate
    \/ GenerateSchedules
    \/ StoreGenerated
    \/ SubmitRelax
    \/ RelaxSelected
    \/ StoreRelaxed

SpecUi == InitUi /\ [][NextUi]_vars

\* render_time_off_input: the form adds a request for one shift, the button
\* next to a request removes it; both rerun the page.
AddTimeOffRequest ==
    /\ ui.at = "page"
    /\ \E request \in {[employee_name |-> "E1", date |-> 0,
                         shift_time |-> "Morning"]} :
            /\ request \notin time_off_requests
            /\ time_off_requests' = time_off_requests \cup {request}
    /\ ui' = [at |-> "page"]
    /\ UNCHANGED <<employees, requirements, pre_assigned_shifts, start_date,
                   num_weeks, flags, model_infeasible, pc, valid_schedules,
                   diagnostics, template_vars, session, evaluated, verdict,
                   resolved_from>>

RemoveTimeOffRequest ==
    /\ ui.at = "page"
    /\ \E request \in time_off_requests :
            time_off_requests' = time_off_requests \ {request}
    /\ ui' = [at |-> "page"]
    /\ UNCHANGED <<employees, requirements, pre_assigned_shifts, start_date,
                   num_weeks, flags, model_infeasible, pc, valid_schedules,
                   diagnostics, template_vars, session, evaluated, verdict,
                   resolved_from>>

NextUiEdits ==
    \/ NextUi
    \/ AddTimeOffRequest
    \/ RemoveTimeOffRequest

SpecUiEdits == InitUi /\ [][NextUiEdits]_vars

(***************************************************************************)
(* The evaluators of constraints.py, called on schedules of one week in    *)
(* which an employee works three shifts on the first days, two on the      *)
(* next and one on the days after those.                                   *)
(***************************************************************************)
DayPatterns ==
    {p \in [three : 0..MaxThreeShiftDays, two : 0..MaxTwoShiftDays,
            one : 0..MaxOneShiftDays] :
        p.three + p.two + p.one <= DaysPerWeek}

\* The number of shifts worked on day d (0..6) of the window.
DayCount(p, d) ==
    IF d < p.three THEN 3
    ELSE IF d < p.three + p.two THEN 2
    ELSE IF d < p.three + p.two + p.one THEN 1
    ELSE 0

\* The one-week template from sd with staff[e] working by pattern[e].
PatternSchedule(sd, staff, pattern) ==
    [shifts |->
        [s \in 1..(DaysPerWeek * Len(shift_times)) |->
            [date |-> TemplateShift(sd, s).date,
             shift_time |-> TemplateShift(sd, s).shift_time,
             assigned_employees |->
                InIndexOrder([employees |-> staff],
                    {e \in 1..Len(staff) :
                        ((s - 1) % Len(shift_times))
                            < DayCount(pattern[e],
                                       (s - 1) \div Len(shift_times))})]]]

\* Everything but the evaluator's arguments is idle.
NoScheduler ==
    /\ employees = <<>>
    /\ requirements = <<>>
    /\ time_off_requests = {}
    /\ pre_assigned_shifts = {}
    /\ start_date = 0
    /\ num_weeks = 0
    /\ relaxed_requirements = FALSE
    /\ relaxed_shifts = FALSE
    /\ relaxed_days_off = FALSE
    /\ model_infeasible = FALSE
    /\ valid_schedules = <<>>
    /\ diagnostics = NoDiagnostics
    /\ IdleTemplate
    /\ ui = [at |-> "closed"]
    /\ session = NoSession
    /\ resolved_from = NoValue

InitFulltimeEvaluator ==
    /\ NoScheduler
    /\ pc = "evaluate"
    /\ verdict = NoValue
    /\ \E sd \in 0..MaxStartDate, p \in DayPatterns, ft \in BOOLEAN,
          rs \in BOOLEAN, rd \in BOOLEAN :
        LET employee == [name |-> "E1", is_leader |-> FALSE,
                         can_inject |-> FALSE, is_fulltime |-> ft,
                         available_shifts |-> [d \in 1..7 |-> AllDay]]
        IN  evaluated = [schedule |->
                            PatternSchedule(sd, <<employee>>, <<p>>),
                         employee |-> employee,
                         relaxed_shifts |-> rs,
                         relaxed_days_off |-> rd]

ValidateFulltime ==
    /\ pc = "evaluate"
    /\ verdict' = [result |->
            validate_fulltime_constraints(evaluated.schedule,
                                          evaluated.employee,
                                          evaluated.relaxed_shifts,
                                          evaluated.relaxed_days_off)]
    /\ pc' = "evaluated"
    /\ UNCHANGED <<inputs, flags, model_infeasible, valid_schedules,
                   diagnostics, template_vars, ui, session, evaluated,
                   resolved_from>>

SpecFulltimeEvaluator == InitFulltimeEvaluator /\ [][ValidateFulltime]_vars

\* One employee of each capability mix, all free on Monday morning.
CapabilityStaff ==
    <<[name |-> "E1", is_leader |-> FALSE, can_inject |-> FALSE,
       is_fulltime |-> FALSE, available_shifts |-> AvMonday],
      [name |-> "E2", is_leader |-> TRUE, can_inject |-> FALSE,
       is_fulltime |-> FALSE, available_shifts |-> AvMonday],
      [name |-> "E3", is_leader |-> FALSE, can_inject |-> TRUE,
       is_fulltime |-> FALSE, available_shifts |-> AvMonday],
      [name |-> "E4", is_leader |-> TRUE, can_inject |-> TRUE,
       is_fulltime |-> FALSE, available_shifts |-> AvMonday]>>

\* A Monday morning shift staffed by any of them, against a requirement with
\* any headcount and any three minima.
InitRequirementEvaluator ==
    /\ NoScheduler
    /\ pc = "evaluate"
    /\ verdict = NoValue
    /\ \E staffed \in SUBSET (1..Len(CapabilityStaff)),
          p \in 0..MaxPeople, l \in 0..MaxMinimum, i \in 0..MaxMinimum,
          li \in 0..MaxMinimum, r \in BOOLEAN :
        evaluated =
            [shift |-> [date |-> 0, shift_time |-> "Morning",
                        assigned_employees |->
                            InIndexOrder([employees |-> CapabilityStaff],
                                         staffed)],
             requirement |-> [day_of_week |-> 1, shift_time |-> "Morning",
                              num_people |-> p, num_leaders |-> l,
                              num_injectors |-> i,
                              num_leader_or_injector |-> li],
             relaxed |-> r]

ValidateShiftRequirements ==
    /\ pc = "evaluate"
    /\ verdict' = [result |->
            validate_shift_requirements(evaluated.shift,
                                        evaluated.requirement,
                                        evaluated.relaxed)]
    /\ pc' = "evaluated"
    /\ UNCHANGED <<inputs, flags, model_infeasible, valid_schedules,
                   diagnostics, template_vars, ui, session, evaluated,
                   resolved_from>>

SpecRequirementEvaluator ==
    InitRequirementEvaluator /\ [][ValidateShiftRequirements]_vars

\* Working every shift of the week.
EveryShift == [three |-> DaysPerWeek, two |-> 0, one |-> 0]

\* Up to MaxScored employees: E1 works by any pattern, each colleague by
\* E1's pattern or every shift of the week.
InitScore ==
    /\ NoScheduler
    /\ pc = "evaluate"
    /\ verdict = NoValue
    /\ \E sd \in 0..MaxStartDate, n \in 1..MaxScored, p \in DayPatterns :
        \E q \in [2..n -> {p, EveryShift}] :
            evaluated =
                [schedule |->
                    PatternSchedule(sd,
                        [e \in 1..n |->
                            [name |-> EmployeeNames[e]] @@ PlainProfile],
                        [e \in 1..n |-> IF e = 1 THEN p ELSE q[e]])]

CalculateScheduleScore ==
    /\ pc = "evaluate"
    /\ verdict' = [result |-> calculate_schedule_score(evaluated.schedule)]
    /\ pc' = "evaluated"
    /\ UNCHANGED <<inputs, flags, model_infeasible, valid_schedules,
                   diagnostics, template_vars, ui, session, evaluated,
                   resolved_from>>

SpecScore == InitScore /\ [][CalculateScheduleScore]_vars

\* E1 works a week by any pattern; the limit is asked for E1 or for E2, who
\* works nowhere, on a date of the week or the day after it, with a limit
\* given or left to its default.
InitDayLimit ==
    /\ NoScheduler
    /\ pc = "evaluate"
    /\ verdict = NoValue
    /\ \E sd \in 0..MaxStartDate, p \in DayPatterns,
          name \in {"E1", "E2"}, offset \in 0..DaysPerWeek :
        LET call == [schedule |->
                        PatternSchedule(sd,
                            <<[name |-> "E1"] @@ PlainProfile>>, <<p>>),
                     employee_name |-> name,
                     target_date |-> sd + offset]
        IN  evaluated \in {call} \cup
                {call @@ [max_shifts_per_day |-> m] : m \in 0..MaxDayLimit}

CheckEmployeeDayLimit ==
    /\ pc = "evaluate"
    /\ verdict' = [result |->
            check_employee_day_limit(evaluated.schedule,
                evaluated.employee_name, evaluated.target_date,
                IF "max_shifts_per_day" \in DOMAIN evaluated
                THEN evaluated.max_shifts_per_day
                ELSE DefaultMaxShiftsPerDay)]
    /\ pc' = "evaluated"
    /\ UNCHANGED <<inputs, flags, model_infeasible, valid_schedules,
                   diagnostics, template_vars, ui, session, evaluated,
                   resolved_from>>

SpecDayLimit == InitDayLimit /\ [][CheckEmployeeDayLimit]_vars

(***************************************************************************)
(* app.py and ui/admin_panel.py: one browser session of the application.   *)
(* ui holds the menu entry selected, the last interaction and the number   *)
(* of schedules saved in the sheet.                                        *)
(***************************************************************************)
Usernames == {"", "admin", "nurse"}
Passwords == {"", "pw1", "pw2"}

UserMenu == {"view"}
AdminMenu == {"view", "generate", "config", "employees"}

\* Any registered user is let in, whatever the password.
CredentialsAcceptKnownUser(admin_credentials, username, password) ==
    username \in DOMAIN admin_credentials

\* username in admin_credentials and admin_credentials[username] == password
CredentialsAccept(admin_credentials, username, password) ==
    /\ username \in DOMAIN admin_credentials
    /\ admin_credentials[username] = password

\* load_data and the first run of render_login_panel.
InitAdmin ==
    /\ employees = <<>>
    /\ requirements = <<>>
    /\ time_off_requests = {}
    /\ pre_assigned_shifts = {}
    /\ start_date = 0
    /\ num_weeks = 0
    /\ relaxed_requirements = FALSE
    /\ relaxed_shifts = FALSE
    /\ relaxed_days_off = FALSE
    /\ model_infeasible = FALSE
    /\ pc = "ready"
    /\ valid_schedules = <<>>
    /\ diagnostics = NoDiagnostics
    /\ IdleTemplate
    /\ evaluated = NoValue
    /\ verdict = NoValue
    /\ resolved_from = NoValue
    /\ \E registered \in SUBSET Usernames :
       \E admin_credentials \in [registered -> Passwords] :
            session = [is_admin |-> FALSE,
                       admin_credentials |-> admin_credentials]
    /\ \E saved \in 0..MaxSaved :
            ui = [at |-> "app", menu |-> "view", last |-> [kind |-> "open"],
                  saved |-> saved]

AdminIdle ==
    UNCHANGED <<inputs, flags, model_infeasible, pc, valid_schedules,
                diagnostics, template_vars, evaluated, verdict,
                resolved_from>>

\* The login form is on screen while nobody is logged in; a good pair sets
\* is_admin and reruns, a bad one shows an error.
SubmitLogin ==
    /\ ui.at = "app"
    /\ ~session.is_admin
    /\ \E username \in Usernames, password \in Passwords :
        IF CredentialsAccept(session.admin_credentials, username, password)
        THEN /\ session' = [session EXCEPT !.is_admin = TRUE]
             /\ ui' = [ui EXCEPT !.menu = "view",
                                 !.last = [kind |-> "login",
                                           username |-> username,
                                           password |-> password]]
        ELSE /\ session' = session
             /\ ui' = [ui EXCEPT !.last = [kind |-> "login_error",
                                           username |-> username,
                                           password |-> password]]
    /\ AdminIdle

\* render_logout_button, drawn only when render_login_panel returned True.
ClickLogout ==
    /\ ui.at = "app"
    /\ session.is_admin
    /\ session' = [session EXCEPT !.is_admin = FALSE]
    /\ ui' = [ui EXCEPT !.menu = "view", !.last = [kind |-> "logout"]]
    /\ AdminIdle

\* st.radio over the menu of this run.
SelectMenu ==
    /\ ui.at = "app"
    /\ \E menu \in (IF session.is_admin THEN AdminMenu ELSE UserMenu) :
            /\ menu # ui.menu
            /\ ui' = [ui EXCEPT !.menu = menu, !.last = [kind |-> "menu"]]
    /\ AdminIdle
    /\ UNCHANGED session

\* The generator page: a schedule is generated and saved to the sheet.
GenerateAndSave ==
    /\ ui.at = "app"
    /\ ui.menu = "generate" /\ session.is_admin
    /\ ui.saved < MaxSaved
    /\ ui' = [ui EXCEPT !.saved = ui.saved + 1,
                        !.last = [kind |-> "generate"]]
    /\ AdminIdle
    /\ UNCHANGED session

\* render_config_editor: the requirements are saved.
SaveConfig ==
    /\ ui.at = "app"
    /\ ui.menu = "config" /\ session.is_admin
    /\ ui' = [ui EXCEPT !.last = [kind |-> "config"]]
    /\ AdminIdle
    /\ UNCHANGED session

\* render_employee_editor: the employee list is saved.
SaveEmployees ==
    /\ ui.at = "app"
    /\ ui.menu = "employees" /\ session.is_admin
    /\ ui' = [ui EXCEPT !.last = [kind |-> "employees"]]
    /\ AdminIdle
    /\ UNCHANGED session

\* The delete button under the calendar of a saved schedule.
DeleteSchedule ==
    /\ ui.at = "app"
    /\ ui.menu = "view"
    /\ ui.saved > 0
    /\ session.is_admin
    /\ ui' = [ui EXCEPT !.saved = ui.saved - 1,
                        !.last = [kind |-> "delete"]]
    /\ AdminIdle
    /\ UNCHANGED session

NextAdmin ==
    \/ SubmitLogin
    \/ ClickLogout
    \/ SelectMenu
    \/ GenerateAndSave
    \/ SaveConfig
    \/ SaveEmployees
    \/ DeleteSchedule

SpecAdmin == InitAdmin /\ [][NextAdmin]_vars

(***************************************************************************)
(* data/sheets_manager.py: the availability column of the employees sheet. *)
(* A string is a sequence of tokens: a shift label, the decimal digits of  *)
(* a weekday, or one of the separators ":", ";" and ",".                   *)
(***************************************************************************)
DayDigits == <<"1", "2", "3", "4", "5", "6", "7">>

\* str.split(sep)
RECURSIVE SplitOn(_, _)
SplitOn(str, sep) ==
    IF \A i \in 1..Len(str) : str[i] # sep
    THEN <<str>>
    ELSE LET i == SetMin({k \in 1..Len(str) : str[k] = sep})
         IN  <<SubSeq(str, 1, i - 1)>>
                \o SplitOn(SubSeq(str, i + 1, Len(str)), sep)

\* sep.join(pieces)
RECURSIVE JoinWith(_, _)
JoinWith(pieces, sep) ==
    IF Len(pieces) = 0 THEN <<>>
    ELSE IF Len(pieces) = 1 THEN pieces[1]
    ELSE pieces[1] \o <<sep>> \o JoinWith(Tail(pieces), sep)

\* The days of a set in increasing order: sorted(emp.available_shifts.keys())
RECURSIVE SortedDays(_)
SortedDays(days) ==
    IF days = {} THEN <<>>
    ELSE <<SetMin(days)>> \o SortedDays(days \ {SetMin(days)})

\* update_employees: availability_str of one employee.  The lists of the
\* weekdays the dict holds are compared with the first of them.
format_availability(available_shifts) ==
    IF DOMAIN available_shifts = {}
    THEN <<>>
    ELSE IF \A d \in DOMAIN available_shifts :
                available_shifts[d]
                    = available_shifts[SetMin(DOMAIN available_shifts)]
         THEN JoinWith([i \in 1..Len(available_shifts[
                                        SetMin(DOMAIN available_shifts)]) |->
                            <<available_shifts[
                                SetMin(DOMAIN available_shifts)][i]>>], ",")
         ELSE LET days == SortedDays({d \in DOMAIN available_shifts :
                                        available_shifts[d] # <<>>})
              IN  JoinWith([k \in 1..Len(days) |->
                        <<DayDigits[days[k]], ":">> \o
                        JoinWith([i \in 1..Len(available_shifts[days[k]]) |->
                                    <<available_shifts[days[k]][i]>>], ",")],
                      ";")

\* The labels of a comma-separated list: [s.strip() for s in ....split(',')]
\* A piece is one token, a label, or the empty string.
ParsedShifts(str) ==
    [i \in 1..Len(SplitOn(str, ",")) |->
        IF Len(SplitOn(str, ",")[i]) = 1 THEN SplitOn(str, ",")[i][1]
        ELSE ""]

\* An entry "day:shifts" gives a weekday and its list; an entry without a
\* colon or with a day that is no number is skipped.
EntryParses(entry) ==
    /\ \E i \in 1..Len(entry) : entry[i] = ":"
    /\ LET c == SetMin({k \in 1..Len(entry) : entry[k] = ":"})
       IN  c = 2 /\ \E n \in 1..Len(DayDigits) : DayDigits[n] = entry[1]

EntryDay(entry) == CHOOSE n \in 1..Len(DayDigits) : DayDigits[n] = entry[1]

\* get_employees: available_shifts of one record; a later entry of a day
\* replaces an earlier one.
parse_availability(str) ==
    IF \E i \in 1..Len(str) : str[i] = ":"
    THEN LET entries == SplitOn(str, ";")
             good == {k \in 1..Len(entries) : EntryParses(entries[k])}
             days == {EntryDay(entries[k]) : k \in good}
         IN  [d \in days |->
                LET entry == entries[SetMax({k \in good :
                                        EntryDay(entries[k]) = d})]
                IN  ParsedShifts(SubSeq(entry, 3, Len(entry)))]
    ELSE [d \in 1..DaysPerWeek |-> ParsedShifts(str)]

\* The lists an employee can have for a weekday.
ShiftLists ==
    {<<"Morning">>, <<"Morning", "Midday">>,
     <<"Morning", "Midday", "Evening">>, <<"Evening", "Midday">>}

\* An employee with a list for each weekday of any set of weekdays.
InitAvailability ==
    /\ NoScheduler
    /\ pc = "evaluate"
    /\ verdict = NoValue
    /\ \E days \in SUBSET (1..DaysPerWeek) :
        \E lists \in [days -> {l \in ShiftLists : Len(l) <= MaxListed}] :
            /\ Cardinality({lists[d] : d \in days}) <= MaxDistinctLists
            /\ evaluated = [available_shifts |-> lists]

\* update_employees writes the row, get_employees reads it back.
WriteAndReadBack ==
    /\ pc = "evaluate"
    /\ verdict' =
            [written |-> format_availability(evaluated.available_shifts),
             read |-> parse_availability(
                        format_availability(evaluated.available_shifts))]
    /\ pc' = "evaluated"
    /\ UNCHANGED <<inputs, flags, model_infeasible, valid_schedules,
                   diagnostics, template_vars, ui, session, evaluated,
                   resolved_from>>

SpecAvailability == InitAvailability /\ [][WriteAndReadBack]_vars

(***************************************************************************)
(* ORToolsScheduler.generate_month_template, loop by loop.                 *)
(***************************************************************************)
\* The offset with the week counted as one day.
current_date_week_as_day(sd, w, d) == sd + w + d

\* self.start_date + timedelta(weeks=week, days=day)
current_date(sd, w, d) == sd + 7 * w + d

InitTemplate ==
    /\ employees = <<>>
    /\ requirements = <<>>
    /\ time_off_requests = {}
    /\ pre_assigned_shifts = {}
    /\ start_date \in 0..MaxStartDate
    /\ num_weeks \in 0..MaxWeeks
    /\ relaxed_requirements = FALSE
    /\ relaxed_shifts = FALSE
    /\ relaxed_days_off = FALSE
    /\ model_infeasible = FALSE
    /\ pc = "template"
    /\ valid_schedules = <<>>
    /\ diagnostics = NoDiagnostics
    /\ IdleTemplate
    /\ IdleCallers

\* The body of the innermost loop, and the step to the next iteration of
\* the three nested loops.
TemplateAppend ==
    /\ pc = "template"
    /\ week < num_weeks
    /\ shifts' = Append(shifts,
                        [date |-> current_date(start_date, week, day),
                         shift_time |-> shift_times[shift_idx + 1],
                         assigned_employees |-> <<>>])
    /\ IF shift_idx + 1 < Len(shift_times)
       THEN /\ shift_idx' = shift_idx + 1
            /\ UNCHANGED <<week, day>>
       ELSE /\ shift_idx' = 0
            /\ IF day + 1 < DaysPerWeek
               THEN day' = day + 1 /\ UNCHANGED week
               ELSE day' = 0 /\ week' = week + 1
    /\ UNCHANGED <<inputs, flags, model_infeasible, pc, valid_schedules,
                   diagnostics, caller_vars>>

\* return shifts
TemplateReturn ==
    /\ pc = "template"
    /\ week >= num_weeks
    /\ pc' = "template_done"
    /\ UNCHANGED <<inputs, flags, model_infeasible, valid_schedules,
                   diagnostics, template_vars, caller_vars>>

NextTemplate ==
    \/ TemplateAppend
    \/ TemplateReturn

SpecTemplate == InitTemplate /\ [][NextTemplate]_vars

\* The closed form the solver model uses is the list the loops build.
TemplateAgrees ==
    pc = "template_done" =>
        shifts = generate_month_template(start_date, num_weeks)

(***************************************************************************)
(* Properties of what generate_schedules returns.                          *)
(***************************************************************************)
HasSchedule == pc = "returned" /\ Len(valid_schedules) > 0

ReturnedShifts == valid_schedules[1].shifts

RequirementOf(shift) ==
    requirement_map(Self, weekday(shift.date) + 1, shift.shift_time)

NamesAssigned(shift) ==
    {shift.assigned_employees[i].name : i \in 1..Len(shift.assigned_employees)}

AnyRelaxation == relaxed_requirements \/ relaxed_shifts \/ relaxed_days_off

\* C1: in a returned schedule every shift whose (weekday, shift_time) has a
\* requirement is staffed by exactly num_people employees, whatever the
\* relaxation flags.
C1_HeadcountExact ==
    HasSchedule =>
        \A s \in 1..Len(ReturnedShifts) :
            RequirementOf(ReturnedShifts[s]) # NoRequirement =>
                Len(ReturnedShifts[s].assigned_employees)
                    = RequirementOf(ReturnedShifts[s]).num_people

\* A relaxed solve that staffed a required shift with one of two employees
\* who were both free for it.
C1_Witness ==
    /\ HasSchedule
    /\ AnyRelaxation
    /\ Len(employees) = 2
    /\ \E s \in 1..Len(ReturnedShifts) :
        /\ RequirementOf(ReturnedShifts[s]).num_people = 1
        /\ RequirementOf(ReturnedShifts[s]) # NoRequirement
        /\ Len(ReturnedShifts[s].assigned_employees) = 1
        /\ \A e \in 1..2 :
            validate_availability(ReturnedShifts[s], employees[e],
                                  time_off_requests)

\* C2: in a returned schedule an employee is in a shift only if the
\* employee's available_shifts has the shift's weekday and lists its
\* shift_time, and no time-off record names (employee, date, shift_time); an
\* absent weekday or an empty list keeps the employee off that whole day.
C2_AvailabilityRespected ==
    HasSchedule =>
        \A s \in 1..Len(ReturnedShifts) :
            \A i \in 1..Len(ReturnedShifts[s].assigned_employees) :
                LET sh == ReturnedShifts[s]
                    emp == sh.assigned_employees[i]
                    dow == weekday(sh.date) + 1
                IN  /\ dow \in DOMAIN emp.available_shifts
                    /\ emp.available_shifts[dow] # {}
                    /\ sh.shift_time \in emp.available_shifts[dow]
                    /\ [employee_name |-> emp.name, date |-> sh.date,
                        shift_time |-> sh.shift_time] \notin time_off_requests

\* A returned schedule whose Monday morning needs one person, E1 has asked
\* that shift off, and E2 works it.
C2_Witness ==
    /\ HasSchedule
    /\ \E r \in time_off_requests :
        \E s \in 1..Len(ReturnedShifts) :
            /\ ReturnedShifts[s].date = r.date
            /\ ReturnedShifts[s].shift_time = r.shift_time
            /\ can_work_on(employees[1], weekday(r.date) + 1, r.shift_time)
            /\ employees[1].name = r.employee_name
            /\ NamesAssigned(ReturnedShifts[s]) = {"E2"}

\* C3 (as claimed): whenever a schedule is returned, every pre-assignment
\* record is in it: the named employee is in the shift of the record's date
\* and shift_time.
C3_EveryPreAssignmentPresent ==
    HasSchedule =>
        \A pre \in pre_assigned_shifts :
            \E s \in 1..Len(ReturnedShifts) :
                /\ ReturnedShifts[s].date = pre.date
                /\ ReturnedShifts[s].shift_time = pre.shift_time
                /\ has_employee(ReturnedShifts[s], pre.employee_name)

\* A record that names nobody of the roster.
UnknownEmployee(record) ==
    \A e \in 1..Len(employees) : employees[e].name # record.employee_name

\* C4 (as claimed): a solve given a pre-assignment or time-off record that
\* names an employee who is not in the roster never returns a schedule.
C4_UnresolvedRecordIsFatal ==
    (/\ pc = "returned"
     /\ \E record \in pre_assigned_shifts \cup time_off_requests :
            UnknownEmployee(record))
        => Len(valid_schedules) = 0

\* C5 (as claimed): every shift of a returned schedule that has a requirement
\* has at least the required leaders, injectors and leader-or-injectors, each
\* minimum halved (floor) when relaxed_requirements is set; also when a
\* capability pool of the roster is empty.
C5_CapabilityMinimaMet ==
    HasSchedule =>
        \A s \in 1..Len(ReturnedShifts) :
            LET sh == ReturnedShifts[s]
                req == RequirementOf(sh)
            IN  req # NoRequirement =>
                  IF relaxed_requirements
                  THEN /\ count_leaders(sh) >= req.num_leaders \div 2
                       /\ count_injectors(sh) >= req.num_injectors \div 2
                       /\ count_leader_or_injector(sh)
                            >= req.num_leader_or_injector \div 2
                  ELSE /\ count_leaders(sh) >= req.num_leaders
                       /\ count_injectors(sh) >= req.num_injectors
                       /\ count_leader_or_injector(sh)
                            >= req.num_leader_or_injector

\* Some requirement in force asks for a capability nobody in the roster has.
EmptyPoolRequired ==
    \E i \in 1..Len(requirements) :
        LET req == requirements[i]
        IN  /\ req = requirement_map(Self, req.day_of_week, req.shift_time)
            /\ \/ /\ req.num_leaders > 0
                  /\ \A e \in 1..Len(employees) : ~employees[e].is_leader
               \/ /\ req.num_injectors > 0
                  /\ \A e \in 1..Len(employees) : ~employees[e].can_inject
               \/ /\ req.num_leader_or_injector > 0
                  /\ \A e \in 1..Len(employees) :
                        ~employees[e].is_leader /\ ~employees[e].can_inject

\* C6 (as claimed): a strict solve that does not time out, given a
\* requirement with a positive capability minimum and an empty pool for it,
\* returns no schedule and status INFEASIBLE.
C6_EmptyPoolInfeasible ==
    (/\ pc = "returned"
     /\ ~AnyRelaxation
     /\ diagnostics.solver_status # "UNKNOWN"
     /\ EmptyPoolRequired)
        => /\ Len(valid_schedules) = 0
           /\ diagnostics.solver_status = "INFEASIBLE"

\* The shifts of the returned schedule that employee works in ISO week wk.
WeekShiftsOf(employee_name, wk) ==
    {s \in 1..Len(ReturnedShifts) :
        /\ isocalendar(ReturnedShifts[s].date) = wk
        /\ has_employee(ReturnedShifts[s], employee_name)}

WeekDaysOf(employee_name, wk) ==
    {ReturnedShifts[s].date : s \in WeekShiftsOf(employee_name, wk)}

DiagnosticsKeys ==
    {"solver_status", "solve_time", "num_conflicts", "num_branches",
     "wall_time", "relaxed_requirements", "relaxed_shifts",
     "relaxed_days_off", "valid_count"}

\* C8: generate_schedules returns one schedule exactly when the status is
\* OPTIMAL or FEASIBLE and none otherwise; the diagnostics always carry every
\* key, the three flags as set on the object, and valid_count = the length
\* of the list; a returned schedule is never partial.
C8_ScheduleIffSolved ==
    pc = "returned" =>
        /\ diagnostics.solver_status
              \in {"OPTIMAL", "FEASIBLE", "INFEASIBLE", "UNKNOWN"}
        /\ Len(valid_schedules) = 1
              <=> diagnostics.solver_status \in {"OPTIMAL", "FEASIBLE"}
        /\ Len(valid_schedules) = 0
              <=> diagnostics.solver_status \in {"INFEASIBLE", "UNKNOWN"}
        /\ DOMAIN diagnostics = DiagnosticsKeys
        /\ diagnostics.relaxed_requirements = relaxed_requirements
        /\ diagnostics.relaxed_shifts = relaxed_shifts
        /\ diagnostics.relaxed_days_off = relaxed_days_off
        /\ diagnostics.valid_count = Len(valid_schedules)
        /\ Len(valid_schedules) = 1 =>
              Len(ReturnedShifts) = num_weeks * DaysPerWeek * Len(shift_times)

\* A relaxed solve that came back INFEASIBLE with an empty list.
C8_Witness ==
    /\ pc = "returned"
    /\ diagnostics.solver_status = "INFEASIBLE"
    /\ diagnostics.relaxed_requirements
    /\ diagnostics.valid_count = 0
    /\ valid_schedules = <<>>

\* C9 (as claimed): no solve runs to a result for a start_date that is not a
\* Monday.
C9_NonMondayStartRejected ==
    pc = "returned" => weekday(start_date) = 0

ShiftRank(shift_time) ==
    CHOOSE k \in 1..Len(shift_times) : shift_times[k] = shift_time

\* C10: generate_month_template returns num_weeks * 7 * 3 empty shifts, one
\* for each date of start_date .. start_date + 7 * num_weeks - 1 and each
\* shift_time, none twice, ordered by date and then Morning, Midday, Evening.
C10_TemplateShape ==
    pc = "template_done" =>
        /\ Len(shifts) = num_weeks * 7 * 3
        /\ \A i \in 1..Len(shifts) :
            /\ shifts[i].assigned_employees = <<>>
            /\ shifts[i].date \in start_date..(start_date + 7 * num_weeks - 1)
            /\ shifts[i].shift_time \in {"Morning", "Midday", "Evening"}
        /\ \A d \in start_date..(start_date + 7 * num_weeks - 1) :
            \A t \in {"Morning", "Midday", "Evening"} :
                Cardinality({i \in 1..Len(shifts) :
                    shifts[i].date = d /\ shifts[i].shift_time = t}) = 1
        /\ \A i \in 1..Len(shifts) : \A j \in 1..Len(shifts) :
            i < j =>
                \/ shifts[i].date < shifts[j].date
                \/ /\ shifts[i].date = shifts[j].date
                   /\ ShiftRank(shifts[i].shift_time)
                        < ShiftRank(shifts[j].shift_time)

\* The finished template of a window of more than one week starting on a
\* Tuesday.
C10_Witness ==
    /\ pc = "template_done"
    /\ num_weeks >= 2
    /\ weekday(start_date) = 1
    /\ Len(shifts) = 21 * num_weeks

\* The position in the roster of an employee of a returned shift.
RosterIndex(employee) ==
    CHOOSE k \in 1..Len(employees) : employees[k] = employee

\* C11: a returned schedule has exactly one shift for every shift of the
\* template, in the template's order (date ascending, then Morning, Midday,
\* Evening), whether or not it has a requirement or anybody assigned; the
\* employees of a shift are listed by increasing position in the roster.
C11_ScheduleInTemplateOrder ==
    HasSchedule =>
        /\ Len(ReturnedShifts) = num_weeks * 7 * 3
        /\ \A s \in 1..Len(ReturnedShifts) :
            /\ ReturnedShifts[s].date = start_date + ((s - 1) \div 3)
            /\ ReturnedShifts[s].shift_time
                    = <<"Morning", "Midday", "Evening">>[((s - 1) % 3) + 1]
            /\ \A i \in 1..Len(ReturnedShifts[s].assigned_employees) :
                /\ ReturnedShifts[s].assigned_employees[i]
                        \in {employees[k] : k \in 1..Len(employees)}
                /\ \A j \in 1..Len(ReturnedShifts[s].assigned_employees) :
                    i < j =>
                        RosterIndex(ReturnedShifts[s].assigned_employees[i])
                          < RosterIndex(ReturnedShifts[s].assigned_employees[j])

\* A returned schedule in which E2, first in the roster, is listed before E1
\* in a shift without a requirement, and another shift has nobody.
C11_Witness ==
    /\ HasSchedule
    /\ requirements = <<>>
    /\ \E s \in 1..Len(ReturnedShifts) :
        /\ Len(ReturnedShifts[s].assigned_employees) = 2
        /\ ReturnedShifts[s].assigned_employees[1].name = "E2"
        /\ ReturnedShifts[s].assigned_employees[2].name = "E1"
    /\ \E s \in 1..Len(ReturnedShifts) :
        ReturnedShifts[s].assigned_employees = <<>>

\* The object with no relaxation set.
StrictSelf == [Self EXCEPT !.relaxed_requirements = FALSE,
                           !.relaxed_shifts = FALSE,
                           !.relaxed_days_off = FALSE]

Template == generate_month_template(start_date, num_weeks)

EveryStrictSolutionIn(strict, relaxed) == strict \subseteq relaxed

\* C12: whatever flags relax_constraints has set, every assignment that
\* satisfies the strict constraints satisfies the constraints under those
\* flags, and a solve that comes back INFEASIBLE has no strict solution
\* either.
C12_RelaxationMonotone ==
    /\ pc = "ready" =>
            EveryStrictSolutionIn(add_constraints(StrictSelf, Template),
                                  add_constraints(Self, Template))
    /\ (pc = "returned" /\ diagnostics.solver_status = "INFEASIBLE") =>
            add_constraints(StrictSelf, Template) = {}

\* A solve under all three flags returned a schedule in which the full-time
\* employee works 9 shifts, and the strict constraints have a solution too.
C12_Witness ==
    /\ HasSchedule
    /\ relaxed_requirements /\ relaxed_shifts /\ relaxed_days_off
    /\ employees[1].is_fulltime
    /\ Cardinality(WeekShiftsOf(employees[1].name, isocalendar(start_date))) = 9
    /\ add_constraints(StrictSelf, Template) # {}

\* C13 (as claimed): a schedule returned by the second solve, pinned to the
\* first schedule's assignments and run without time-off records under the
\* same flags, has exactly the assignments of the first schedule.
C13_ResolveSameAssignments ==
    (/\ HasSchedule
     /\ resolved_from # NoValue
     /\ resolved_from.relaxed_requirements = relaxed_requirements
     /\ resolved_from.relaxed_shifts = relaxed_shifts
     /\ resolved_from.relaxed_days_off = relaxed_days_off)
        => AssignmentsOf(valid_schedules[1])
              = AssignmentsOf(resolved_from.schedule)

\* C13 (amended): the second solve's schedule has every assignment of the
\* first, and on every shift that has a requirement exactly the employees
\* the first had.
C13_ResolveKeepsAssignments ==
    (/\ HasSchedule
     /\ resolved_from # NoValue
     /\ resolved_from.relaxed_requirements = relaxed_requirements
     /\ resolved_from.relaxed_shifts = relaxed_shifts
     /\ resolved_from.relaxed_days_off = relaxed_days_off)
        => /\ AssignmentsOf(resolved_from.schedule)
                \subseteq AssignmentsOf(valid_schedules[1])
           /\ \A s \in 1..Len(ReturnedShifts) :
                RequirementOf(ReturnedShifts[s]) # NoRequirement =>
                    NamesAssigned(ReturnedShifts[s])
                        = NamesAssigned(resolved_from.schedule.shifts[s])

\* A second schedule that kept E1 on the required Monday morning and has an
\* assignment the first did not have.
C13_Witness ==
    /\ HasSchedule
    /\ resolved_from # NoValue
    /\ resolved_from.relaxed_requirements = relaxed_requirements
    /\ resolved_from.relaxed_shifts = relaxed_shifts
    /\ resolved_from.relaxed_days_off = relaxed_days_off
    /\ RequirementOf(ReturnedShifts[1]) # NoRequirement
    /\ NamesAssigned(ReturnedShifts[1]) = {"E1"}
    /\ NamesAssigned(resolved_from.schedule.shifts[1]) = {"E1"}
    /\ AssignmentsOf(valid_schedules[1])
            # AssignmentsOf(resolved_from.schedule)

\* A pre-assignment of a roster employee inside the window that a time-off
\* record contradicts, or that falls on a shift the employee's
\* available_shifts does not list.
ConflictingPreAssignment ==
    \E pre \in pre_assigned_shifts :
        \E e \in 1..Len(employees) :
            /\ employees[e].name = pre.employee_name
            /\ pre.date \in start_date..(start_date + 7 * num_weeks - 1)
            /\ \/ [employee_name |-> pre.employee_name, date |-> pre.date,
                    shift_time |-> pre.shift_time] \in time_off_requests
               \/ weekday(pre.date) + 1
                    \notin DOMAIN employees[e].available_shifts
               \/ pre.shift_time
                    \notin employees[e].available_shifts[weekday(pre.date) + 1]

\* C18: with such a pre-assignment a solve returns no schedule, whatever the
\* flags, and, unless it timed out, status INFEASIBLE.
C18_ConflictIsInfeasible ==
    (pc = "returned" /\ ConflictingPreAssignment) =>
        /\ Len(valid_schedules) = 0
        /\ diagnostics.solver_status \in {"INFEASIBLE", "UNKNOWN"}

\* A solve under all three flags came back INFEASIBLE for E1 pre-assigned to
\* the Monday morning E1 asked off.
C18_Witness ==
    /\ pc = "returned"
    /\ relaxed_requirements /\ relaxed_shifts /\ relaxed_days_off
    /\ pre_assigned_shifts \cap time_off_requests # {}
    /\ ConflictingPreAssignment
    /\ diagnostics.solver_status = "INFEASIBLE"
    /\ valid_schedules = <<>>

\* The values of shift_vars a returned schedule was parsed from.
ReturnedAssignment ==
    [e \in 1..Len(employees) |->
        {s \in 1..Len(ReturnedShifts) :
            has_employee(ReturnedShifts[s], employees[e].name)}]

\* x with employee e_out replaced by employee e_in on shift s.
Swapped(x, s, e_out, e_in) ==
    [e \in 1..Len(x) |->
        IF e = e_out THEN x[e] \ {s}
        ELSE IF e = e_in THEN x[e] \cup {s}
        ELSE x[e]]

\* The swaps of one employee for another on one shift that still satisfy
\* every posted constraint.
FeasibleSwaps(x) ==
    {y \in {Swapped(x, t[1], t[2], t[3]) :
                t \in {u \in (1..Len(ReturnedShifts)) \X (1..Len(x))
                                \X (1..Len(x)) :
                          /\ u[1] \in x[u[2]]
                          /\ u[1] \notin x[u[3]]}} :
        SatisfiesConstraints(Self, Template, y)}

\* C14: the score of a schedule returned with status OPTIMAL is at least the
\* score of every schedule got from it by replacing one employee with
\* another on one shift so that every posted constraint still holds.
C14_ScoreConsistency ==
    (HasSchedule /\ diagnostics.solver_status = "OPTIMAL") =>
        \A y \in FeasibleSwaps(ReturnedAssignment) :
            calculate_schedule_score(valid_schedules[1])
                >= calculate_schedule_score(parse_solution(Self, Template, y))

\* An OPTIMAL schedule that scores 20 and has a feasible swap that scores
\* less.
C14_Witness ==
    /\ HasSchedule
    /\ diagnostics.solver_status = "OPTIMAL"
    /\ calculate_schedule_score(valid_schedules[1]) = 20
    /\ \E y \in FeasibleSwaps(ReturnedAssignment) :
            calculate_schedule_score(parse_solution(Self, Template, y)) < 20

\* The Monday-based weeks in which the evaluated employee has a shift.
EvaluatedWeeks ==
    {evaluated.schedule.shifts[s].date \div 7 :
        s \in get_employee_shifts(evaluated.schedule, evaluated.employee.name)}

EvaluatedWeekShifts(wk) ==
    {s \in get_employee_shifts(evaluated.schedule, evaluated.employee.name) :
        evaluated.schedule.shifts[s].date \div 7 = wk}

\* C15 (as claimed): validate_fulltime_constraints is true of every
\* part-time employee, and of a full-time employee exactly when every
\* Monday-based week with a shift has 10 shifts (8 to 10 under
\* relaxed_shifts) on at most 5 dates (6 under relaxed_days_off).
C15_FulltimeEvaluator ==
    pc = "evaluated" =>
        verdict.result =
            (evaluated.employee.is_fulltime =>
                \A wk \in EvaluatedWeeks :
                    LET total == Cardinality(EvaluatedWeekShifts(wk))
                        dates == Cardinality(
                            {evaluated.schedule.shifts[s].date :
                                s \in EvaluatedWeekShifts(wk)})
                    IN  /\ IF evaluated.relaxed_shifts
                           THEN total >= 8 /\ total <= 10
                           ELSE total = 10
                        /\ IF evaluated.relaxed_days_off
                           THEN dates <= 6
                           ELSE dates <= 5)

\* The floor of half a minimum, by cases.
HalfFloor(minimum) ==
    CHOOSE h \in 0..minimum : 2 * h <= minimum /\ minimum < 2 * (h + 1)

EvaluatedStaff ==
    {evaluated.shift.assigned_employees[i] :
        i \in 1..Len(evaluated.shift.assigned_employees)}

\* C16: validate_shift_requirements is true exactly when the headcount is
\* num_people, relaxed or not, and the leaders, the injectors and the
\* leader-or-injectors each number at least their minimum, or at least the
\* floor of half of it when relaxed, so that a relaxed minimum of 0 or 1
\* asks for nobody.
C16_RequirementEvaluator ==
    pc = "evaluated" =>
        verdict.result =
            LET req == evaluated.requirement
                leaders == Cardinality({e \in EvaluatedStaff : e.is_leader})
                injectors == Cardinality({e \in EvaluatedStaff : e.can_inject})
                either == Cardinality({e \in EvaluatedStaff :
                                          e.is_leader \/ e.can_inject})
            IN  /\ Cardinality(EvaluatedStaff) = req.num_people
                /\ IF evaluated.relaxed
                   THEN /\ leaders >= HalfFloor(req.num_leaders)
                        /\ injectors >= HalfFloor(req.num_injectors)
                        /\ either >= HalfFloor(req.num_leader_or_injector)
                   ELSE /\ leaders >= req.num_leaders
                        /\ injectors >= req.num_injectors
                        /\ either >= req.num_leader_or_injector

\* A relaxed check accepted a shift of one plain employee against a
\* requirement of one person and one leader.
C16_Witness ==
    /\ pc = "evaluated"
    /\ evaluated.relaxed
    /\ evaluated.requirement.num_people = 1
    /\ evaluated.requirement.num_leaders = 1
    /\ Len(evaluated.shift.assigned_employees) = 1
    /\ ~evaluated.shift.assigned_employees[1].is_leader
    /\ verdict.result = TRUE

\* The names and the dates of the evaluated schedule.
ScoredNames ==
    UNION {NamesAssigned(evaluated.schedule.shifts[s]) :
            s \in 1..Len(evaluated.schedule.shifts)}

ScoredDates ==
    {evaluated.schedule.shifts[s].date :
        s \in 1..Len(evaluated.schedule.shifts)}

\* The number of shifts of a date the name is in.
ShiftsWorked(name, date) ==
    Cardinality({s \in 1..Len(evaluated.schedule.shifts) :
        /\ evaluated.schedule.shifts[s].date = date
        /\ name \in NamesAssigned(evaluated.schedule.shifts[s])})

PointsFor(count) ==
    IF count = 0 THEN 0
    ELSE IF count = 1 THEN 0
    ELSE IF count = 2 THEN 10
    ELSE -5

RECURSIVE SumOfPoints(_)
SumOfPoints(pairs) ==
    IF pairs = {}
    THEN 0
    ELSE LET pair == CHOOSE q \in pairs : TRUE
         IN  PointsFor(ShiftsWorked(pair[1], pair[2]))
                + SumOfPoints(pairs \ {pair})

\* C17: calculate_schedule_score is the sum, over every (employee, date), of
\* +10 for exactly 2 shifts that date, 0 for 1, -5 for 3 or more, and
\* nothing for none.
C17_ScoreIsSumOfPoints ==
    pc = "evaluated" /\ "schedule" \in DOMAIN evaluated
        /\ "employee" \notin DOMAIN evaluated =>
            verdict.result = SumOfPoints(ScoredNames \X ScoredDates)

\* Three employees working all three shifts of each of the seven days score
\* -105.
C17_Witness ==
    /\ pc = "evaluated"
    /\ "schedule" \in DOMAIN evaluated
    /\ "employee" \notin DOMAIN evaluated
    /\ ScoredNames = {"E1", "E2", "E3"}
    /\ \A n \in ScoredNames : \A d \in ScoredDates : ShiftsWorked(n, d) = 3
    /\ Cardinality(ScoredDates) = 7
    /\ verdict.result = -105

\* C19: the generate form's solve runs with the three flags false; a solve
\* with a flag set runs only for a submission of the relaxation form, which
\* is on screen only after a solve that returned no schedule, and with
\* exactly the flags ticked; every submission is followed by one solve, and
\* nothing but a submission prepares another.
C19_NoAutomaticEscalation ==
    [][/\ (pc = "ready" /\ pc' = "returned") =>
            \/ /\ ui.at = "generate_constructed"
               /\ ~relaxed_requirements' /\ ~relaxed_shifts'
               /\ ~relaxed_days_off'
            \/ /\ ui.at = "relax_relaxed"
               /\ relaxed_requirements' = ui.relax_requirements
               /\ relaxed_shifts' = ui.relax_shifts
               /\ relaxed_days_off' = ui.relax_days_off
               /\ "diagnostics" \in DOMAIN session
               /\ session.generated_schedules = <<>>
       /\ (pc = "returned" /\ pc' # "returned") =>
            /\ ui.at = "page"
            /\ ui'.at \in {"generate_constructed", "relax_constructed"}
       /\ (pc' = "ready" /\ pc # "ready") =>
            \/ ui.at = "page" /\ ui'.at = "generate_constructed"
            \/ ui.at = "relax_constructed" /\ ui'.at = "relax_relaxed"
       /\ (ui.at = "page" /\ ui'.at = "relax_constructed") =>
            /\ "diagnostics" \in DOMAIN session
            /\ session.generated_schedules = <<>>
      ]_vars

\* The page after a relaxed solve, submitted with only the first box ticked,
\* found a schedule where the generate form's solve had found none.
C19_Witness ==
    /\ ui.at = "page"
    /\ "relaxed_info" \in DOMAIN session
    /\ session.relaxed_info = [requirements |-> TRUE, shifts |-> FALSE,
                               days_off |-> FALSE]
    /\ session.generated_schedules # <<>>
    /\ session.diagnostics.relaxed_requirements
    /\ ~session.diagnostics.relaxed_shifts
    /\ relaxed_requirements /\ ~relaxed_shifts /\ ~relaxed_days_off

\* C20: two full-time employees free for every shift of a one-week window
\* that needs one person on each of its 21 shifts get no schedule, strict
\* or with relax_shifts alone; with a third, part-time employee free for
\* every shift the strict solve returns a schedule unless it times out.
C20_TwoFullTimersCannotCoverTheWeek ==
    (pc = "returned" /\ ~relaxed_requirements /\ ~relaxed_days_off) =>
        /\ (Len(employees) = 2 /\ employees[1].is_fulltime) =>
                /\ valid_schedules = <<>>
                /\ diagnostics.solver_status \in {"INFEASIBLE", "UNKNOWN"}
        /\ (Len(employees) = 3 /\ ~relaxed_shifts) =>
                /\ diagnostics.solver_status \in
                        {"OPTIMAL", "FEASIBLE", "UNKNOWN"}
                /\ diagnostics.solver_status # "UNKNOWN" =>
                        /\ Len(valid_schedules) = 1
                        /\ \A s \in 1..Len(valid_schedules[1].shifts) :
                            Len(valid_schedules[1].shifts[s].assigned_employees)
                                = 1

\* The two-employee week was solved with relax_shifts and found infeasible.
C20_Witness ==
    /\ pc = "returned"
    /\ Len(employees) = 2
    /\ employees[1].is_fulltime /\ employees[2].is_fulltime
    /\ requirements = EveryShiftNeedsOne
    /\ relaxed_shifts /\ ~relaxed_requirements /\ ~relaxed_days_off
    /\ diagnostics.solver_status = "INFEASIBLE"

\* sum(1 for an employee of that name in shift.assigned_employees), over the
\* shifts of the schedule on one date
ShiftsOnDateOf(schedule, name, date_val) ==
    Cardinality({s \in 1..Len(schedule.shifts) :
        /\ schedule.shifts[s].date = date_val
        /\ \E i \in 1..Len(schedule.shifts[s].assigned_employees) :
                schedule.shifts[s].assigned_employees[i].name = name})

C22_NobodyNeededNobodyAssigned ==
    (pc = "returned" /\ diagnostics.solver_status # "UNKNOWN") =>
        /\ diagnostics.solver_status \in {"OPTIMAL", "FEASIBLE"}
        /\ Len(valid_schedules) = 1
        /\ Len(valid_schedules[1].shifts) =
                num_weeks * DaysPerWeek * Len(shift_times)
        /\ \A s \in 1..Len(valid_schedules[1].shifts) :
                valid_schedules[1].shifts[s].assigned_employees = <<>>

\* The longest window was solved for the largest roster, its first employee
\* free on Monday morning and midday, and the schedule came back empty.
C22_Witness ==
    /\ pc = "returned"
    /\ requirements = EveryShiftNeedsNobody
    /\ num_weeks = MaxNobodyWeeks
    /\ Len(employees) = MaxEmployees
    /\ employees[1].available_shifts = AvMonday
    /\ time_off_requests = {}
    /\ diagnostics.solver_status = "OPTIMAL"
    /\ Len(valid_schedules) = 1
    /\ Len(valid_schedules[1].shifts) =
            MaxNobodyWeeks * DaysPerWeek * Len(shift_times)

\* The shifts of the evaluated schedule on the target date that list the
\* named employee.
ShiftsCounted ==
    Cardinality({s \in 1..Len(evaluated.schedule.shifts) :
        /\ evaluated.schedule.shifts[s].date = evaluated.target_date
        /\ \E i \in
                1..Len(evaluated.schedule.shifts[s].assigned_employees) :
                evaluated.schedule.shifts[s].assigned_employees[i].name
                    = evaluated.employee_name})

C24_SameSeedSameSchedule ==
    (pc = "returned" /\ "first" \in DOMAIN resolved_from) =>
        /\ \E knob \in ConstructorArguments : knob \in {"seed", "random_seed"}
        /\ "random_seed" \in SolverParametersSet
        /\ (diagnostics.solver_status # "UNKNOWN"
                /\ resolved_from.solver_status # "UNKNOWN") =>
                valid_schedules = resolved_from.first

\* The (employee, date) pairs that have a bonus variable.
BonusPairs(template_shifts, x) ==
    {ed \in (1..Len(x)) \X DatesOf(template_shifts) :
        Cardinality(ShiftsOnDate(template_shifts, ed[2])) >= 2}

\* The pairs with exactly two shifts in x.
TwoShiftPairs(template_shifts, x, pairs) ==
    {ed \in pairs : DailySum(template_shifts, x[ed[1]], ed[2]) = 2}

\* A bonus variable of x can be 1 exactly on the two-shift pairs and can be
\* 0 anywhere.
BonusTight(template_shifts, x, pairs) ==
    \A ed \in pairs :
        /\ BonusAllowed(DailySum(template_shifts, x[ed[1]], ed[2]),
                        Cardinality(ShiftsOnDate(template_shifts, ed[2])), 1)
                <=> DailySum(template_shifts, x[ed[1]], ed[2]) = 2
        /\ BonusAllowed(DailySum(template_shifts, x[ed[1]], ed[2]),
                        Cardinality(ShiftsOnDate(template_shifts, ed[2])), 0)

ObjectiveIsTwoShiftPairs(template_shifts, x, pairs) ==
    MaxObjective(template_shifts, x) =
        10 * Cardinality(TwoShiftPairs(template_shifts, x, pairs))

\* C25: in a returned assignment a bonus variable can take the value 1 only
\* for an employee with exactly 2 shifts on the date, and can take it for
\* every such pair; in a schedule returned as OPTIMAL the objective is 10
\* times the number of (employee, date) pairs with exactly 2 shifts.
C25_BonusEncodingIsTight ==
    HasSchedule =>
        /\ BonusTight(Template, ReturnedAssignment,
                      BonusPairs(Template, ReturnedAssignment))
        /\ diagnostics.solver_status = "OPTIMAL" =>
                ObjectiveIsTwoShiftPairs(Template, ReturnedAssignment,
                    BonusPairs(Template, ReturnedAssignment))

\* An OPTIMAL schedule in which one employee works two shifts on Monday and
\* another, who is needed in the morning and free for nothing else, one.
C25_Witness ==
    /\ HasSchedule
    /\ diagnostics.solver_status = "OPTIMAL"
    /\ \E a \in 1..Len(employees) :
            DailySum(Template, ReturnedAssignment[a], start_date) = 2
    /\ \E c \in 1..Len(employees) :
            DailySum(Template, ReturnedAssignment[c], start_date) = 1
    /\ MaxObjective(Template, ReturnedAssignment) = 10

\* C26: whatever was solved on the scheduler before, a solve that does not
\* time out returns what a scheduler newly constructed with the same inputs
\* and given the same flags returns: no schedule exactly when the
\* constraints of the present flags have no solution, and otherwise one of
\* their solutions.
C26_RelaxingTakesEffect ==
    (pc = "returned" /\ diagnostics.solver_status # "UNKNOWN") =>
        /\ valid_schedules = <<>> <=> add_constraints(Self, Template) = {}
        /\ valid_schedules # <<>> =>
                ReturnedAssignment \in add_constraints(Self, Template)

\* C27: every returned schedule passes validate_fulltime_constraints for
\* every full-time employee of the roster, called with the relaxed_shifts
\* and relaxed_days_off the solve ran with.
C27_SolverAndValidatorAgree ==
    HasSchedule =>
        \A e \in 1..Len(employees) :
            employees[e].is_fulltime =>
                validate_fulltime_constraints(valid_schedules[1], employees[e],
                                              relaxed_shifts, relaxed_days_off)

\* C28: when the page shows the success message of a generate submission,
\* it says "relaxed" only if the solve that produced the stored schedules
\* ran with a relaxation flag set, and lists the relaxations that solve had.
C28_RelaxedMessageOnlyForRelaxedSolve ==
    (ui.at = "page" /\ "success" \in DOMAIN ui) =>
        /\ ui.success.relaxed =>
                \/ session.diagnostics.relaxed_requirements
                \/ session.diagnostics.relaxed_shifts
                \/ session.diagnostics.relaxed_days_off
        /\ "requirements" \in ui.success.listed =>
                session.diagnostics.relaxed_requirements
        /\ "shifts" \in ui.success.listed =>
                session.diagnostics.relaxed_shifts
        /\ "days_off" \in ui.success.listed =>
                session.diagnostics.relaxed_days_off

\* Employee.can_work_on, for an availability held as lists.
CanWorkOnListed(available_shifts, day_of_week, shift_time) ==
    /\ day_of_week \in DOMAIN available_shifts
    /\ \E i \in 1..Len(available_shifts[day_of_week]) :
            available_shifts[day_of_week][i] = shift_time

\* C29: the availability read back from the sheet answers can_work_on as
\* the availability written did, for every weekday and shift label.
C29_AvailabilityRoundTrip ==
    pc = "evaluated" =>
        \A day_of_week \in 1..DaysPerWeek, shift_time \in ShiftTimeSet :
            CanWorkOnListed(verdict.read, day_of_week, shift_time)
                = CanWorkOnListed(evaluated.available_shifts, day_of_week,
                                  shift_time)

\* The interactions that generate, edit requirements, edit employees or
\* delete a saved schedule.
AdminActions == {"generate", "config", "employees", "delete"}

\* C30: is_admin starts false; an admin action happens only in a session
\* whose is_admin is true; is_admin turns true only in the step that submits
\* a registered username with its password; it is false after a logout.
C30_AdminGating ==
    /\ (ui.at = "app" => ~session.is_admin)
    /\ [](ui.at = "app" =>
            (ui.menu # "view" => session.is_admin))
    /\ [][ui.at = "app" =>
            /\ (ui'.last.kind \in AdminActions /\ ui'.last # ui.last
                    => session.is_admin /\ session'.is_admin)
            /\ (ui'.saved # ui.saved => session.is_admin)
            /\ (~session.is_admin /\ session'.is_admin
                    => /\ ui'.last.kind = "login"
                       /\ ui'.last.username
                            \in DOMAIN session.admin_credentials
                       /\ session.admin_credentials[ui'.last.username]
                            = ui'.last.password)
            /\ (ui'.last.kind = "logout" /\ ui'.last # ui.last
                    => ~session'.is_admin)]_vars

\* An administrator who logged in has saved a generated schedule.
C30_Witness ==
    /\ ui.at = "app"
    /\ session.is_admin
    /\ ui.last.kind = "generate"

=============================================================================
